---- MODULE Spec2Model ----
(***************************************************************************)
(* Model of the Google Analytics HTTP front ends of this repository:       *)
(*   full_mcp_api.py, simple_api.py  - FastAPI apps over the vendor SDK    *)
(*   analytics_mcp/http_server.py    - MCP-over-HTTP bridge                *)
(*   start_mcp.py                    - start script of the MCP server      *)
(*   minimal_api.py                  - test server                         *)
(* Python strings are TLA+ strings (\o is concatenation, as in an          *)
(* f-string); bytes are sequences of integers 0..255.                      *)
(***************************************************************************)
EXTENDS Integers, Sequences, FiniteSets, TLC

VARIABLES
    module,         \* the entry point this process runs
    phase,          \* "load" (module body not run yet), "serving", "exited"
    environ,        \* os.environ: the two variables the code reads and writes
    fsFault,        \* how the file system behaves under /app
    libs,           \* whether the google.analytics packages can be imported
    credfile,       \* /app/credentials.json: [exists, data]
    raised,         \* the exception setup_credentials caught: [any, text]
    CREDS_SUCCESS,
    CREDS_MESSAGE,
    GA_AVAILABLE,
    exit_code,      \* status of exit(), -1 while the process runs
    server_started, \* start_mcp: run_server() was called
    tools,          \* mcp._tool_manager._tools: sequence of registered tools
    req,            \* the request handled last
    resp,           \* its response: [status, body]
    calls,          \* vendor / tool calls made while handling it, in order
    vendor          \* what the vendor SDK answered to those calls

startupVars == <<module, phase, environ, fsFault, libs, credfile, raised,
                 CREDS_SUCCESS, CREDS_MESSAGE, GA_AVAILABLE, exit_code,
                 server_started, tools>>
requestVars == <<req, resp, calls, vendor>>
vars == <<startupVars, requestVars>>

(***************************************************************************)
(* Strings                                                                 *)
(***************************************************************************)
Char(s, i) == SubSeq(s, i, i)

\* Python `sub in s`
Contains(s, sub) ==
    \E i \in 1..(Len(s) - Len(sub) + 1) : SubSeq(s, i, i + Len(sub) - 1) = sub

RECURSIVE DigitsOf(_)
DigitsOf(n) ==
    IF n < 10 THEN Char("0123456789", n + 1)
    ELSE DigitsOf(n \div 10) \o Char("0123456789", (n % 10) + 1)

\* str(n) for a non-negative integer
StrInt(n) == DigitsOf(n)

(***************************************************************************)
(* base64.b64decode(s) with validate=False, as binascii.a2b_base64 does    *)
(* it: characters outside the alphabet are skipped, '=' ends the input     *)
(* once a quad is padded out, a dangling quad is an error.                 *)
(***************************************************************************)
B64Alphabet == "ABCDEFGHIJKLMNOPQRSTUVWXYZabcdefghijklmnopqrstuvwxyz0123456789+/"

B64Index(c) ==
    IF \E i \in 1..Len(B64Alphabet) : Char(B64Alphabet, i) = c
    THEN (CHOOSE i \in 1..Len(B64Alphabet) : Char(B64Alphabet, i) = c) - 1
    ELSE 64

\* st = [quad_pos, leftchar, pads, out]; i = position of the next character
RECURSIVE a2b_step(_, _, _)
a2b_step(s, i, st) ==
    IF i > Len(s) THEN
        IF st.quad_pos = 0 THEN [ok |-> TRUE, data |-> st.out, err |-> ""]
        ELSE IF st.quad_pos = 1 THEN
            [ok |-> FALSE, data |-> <<>>,
             err |-> "Invalid base64-encoded string: number of data characters ("
                     \o StrInt(4 * (Len(st.out) \div 3) + 1)
                     \o ") cannot be 1 more than a multiple of 4"]
        ELSE [ok |-> FALSE, data |-> <<>>, err |-> "Incorrect padding"]
    ELSE
        LET c == Char(s, i) IN
        IF c = "=" THEN
            IF st.quad_pos >= 2 /\ st.quad_pos + st.pads + 1 >= 4
            THEN [ok |-> TRUE, data |-> st.out, err |-> ""]
            ELSE a2b_step(s, i + 1,
                          IF st.quad_pos >= 2
                          THEN [st EXCEPT !.pads = st.pads + 1] ELSE st)
        ELSE
            LET v == B64Index(c) IN
            IF v >= 64 THEN a2b_step(s, i + 1, st)
            ELSE CASE st.quad_pos = 0 ->
                        a2b_step(s, i + 1,
                            [quad_pos |-> 1, leftchar |-> v, pads |-> 0,
                             out |-> st.out])
                   [] st.quad_pos = 1 ->
                        a2b_step(s, i + 1,
                            [quad_pos |-> 2, leftchar |-> v % 16, pads |-> 0,
                             out |-> Append(st.out,
                                        (st.leftchar * 4 + v \div 16) % 256)])
                   [] st.quad_pos = 2 ->
                        a2b_step(s, i + 1,
                            [quad_pos |-> 3, leftchar |-> v % 4, pads |-> 0,
                             out |-> Append(st.out,
                                        (st.leftchar * 16 + v \div 4) % 256)])
                   [] OTHER ->
                        a2b_step(s, i + 1,
                            [quad_pos |-> 0, leftchar |-> 0, pads |-> 0,
                             out |-> Append(st.out,
                                        (st.leftchar * 64 + v) % 256)])

b64decode(s) ==
    a2b_step(s, 1, [quad_pos |-> 0, leftchar |-> 0, pads |-> 0, out |-> <<>>])

(***************************************************************************)
(* json.load(open(path, 'r')): the bytes are decoded as UTF-8 text and     *)
(* parsed.  The parser below recognises the JSON texts the model's         *)
(* credential values can decode to: {}, [], an integer, with surrounding   *)
(* white space; every other text is a JSONDecodeError.                     *)
(***************************************************************************)
IsSpace(b) == b \in {32, 9, 10, 13}
IsDigit(b) == b \in 48..57

RECURSIVE Strip(_)
Strip(bs) ==
    IF bs = <<>> THEN bs
    ELSE IF IsSpace(bs[1]) THEN Strip(Tail(bs))
    ELSE IF IsSpace(bs[Len(bs)]) THEN Strip(SubSeq(bs, 1, Len(bs) - 1))
    ELSE bs

json_load(bs) ==
    IF \E i \in 1..Len(bs) : bs[i] >= 128 THEN
        [ok |-> FALSE, kind |-> "",
         err |-> "'utf-8' codec can't decode byte in position "
                 \o StrInt((CHOOSE i \in 1..Len(bs) :
                              bs[i] >= 128 /\ \A j \in 1..(i - 1) : bs[j] < 128) - 1)]
    ELSE LET t == Strip(bs) IN
         IF t = <<123, 125>> THEN [ok |-> TRUE, kind |-> "dict", err |-> ""]
         ELSE IF t = <<91, 93>> THEN [ok |-> TRUE, kind |-> "list", err |-> ""]
         ELSE IF /\ t # <<>>
                 /\ \A i \in 1..Len(t) : IsDigit(t[i])
                 /\ (Len(t) > 1 => t[1] # 48)
              THEN [ok |-> TRUE, kind |-> "int", err |-> ""]
         ELSE IF t = <<>> THEN
              [ok |-> FALSE, kind |-> "",
               err |-> "Expecting value: line 1 column 1 (char 0)"]
         ELSE [ok |-> FALSE, kind |-> "", err |-> "Invalid JSON text"]

(***************************************************************************)
(* Credential bootstrap                                                    *)
(***************************************************************************)
credentials_path == "/app/credentials.json"

Unset == [set |-> FALSE, val |-> ""]
SetTo(v) == [set |-> TRUE, val |-> v]

NoException == [any |-> FALSE, text |-> ""]

\* `except Exception as e: return False, f"Error setting up credentials: {str(e)}"`
SetupFailed(e, env, file) ==
    [success |-> FALSE,
     message |-> "Error setting up credentials: " \o e,
     environ |-> env, credfile |-> file,
     raised  |-> [any |-> TRUE, text |-> e]]

\* The body of setup_credentials, the same statements in the three modules
\* that define it.  fault: the file-system step that raises ("none",
\* "makedirs", "open", "write"); written: bytes on disk when write raises;
\* reads_email: the module reads creds_data.get('client_email') after the
\* parse (start_mcp only).
setup_body(env, file, fault, written, reads_email) ==
    LET b64 == env.GOOGLE_CREDENTIALS_BASE64 IN
    IF ~b64.set \/ b64.val = "" THEN
        [success |-> FALSE, message |-> "GOOGLE_CREDENTIALS_BASE64 not set",
         environ |-> env, credfile |-> file, raised |-> NoException]
    ELSE IF fault = "makedirs" THEN
        SetupFailed("[Errno 13] Permission denied: '/app'", env, file)
    ELSE
    LET dec == b64decode(b64.val) IN
    IF ~dec.ok THEN SetupFailed(dec.err, env, file)
    ELSE IF fault = "open" THEN
        SetupFailed("[Errno 13] Permission denied: '/app/credentials.json'",
                    env, file)
    ELSE IF fault = "write" THEN
        SetupFailed("[Errno 28] No space left on device", env,
                    [exists |-> TRUE, data |-> SubSeq(dec.data, 1, written)])
    ELSE
    LET file2 == [exists |-> TRUE, data |-> dec.data]
        env2  == [env EXCEPT !.GOOGLE_APPLICATION_CREDENTIALS =
                                 SetTo(credentials_path)]
        js    == json_load(file2.data)
    IN
    IF ~js.ok THEN SetupFailed(js.err, env2, file2)
    ELSE IF reads_email /\ js.kind # "dict" THEN
        SetupFailed("'" \o js.kind \o "' object has no attribute 'get'",
                    env2, file2)
    ELSE
        [success |-> TRUE, message |-> "Credentials successfully set up",
         environ |-> env2, credfile |-> file2, raised |-> NoException]

\* Mutant: only a missing variable counts as unset (`is None` for `not`)
setup_credentials_full_none_only(env, file, fault, written) ==
    IF ~env.GOOGLE_CREDENTIALS_BASE64.set
    THEN setup_body(env, file, fault, written, FALSE)
    ELSE IF env.GOOGLE_CREDENTIALS_BASE64.val = ""
    THEN LET r == setup_body([env EXCEPT !.GOOGLE_CREDENTIALS_BASE64 =
                                            SetTo("=")],
                             file, fault, written, FALSE)
         IN [r EXCEPT !.environ.GOOGLE_CREDENTIALS_BASE64 = SetTo("")]
    ELSE setup_body(env, file, fault, written, FALSE)

\* Mutant: a failed bootstrap restores the file and the variables it found
setup_credentials_full_rolling_back(env, file, fault, written) ==
    LET r == setup_body(env, file, fault, written, FALSE) IN
    IF r.success THEN r
    ELSE [r EXCEPT !.environ = env, !.credfile = file]

setup_credentials_full(env, file, fault, written) ==
    setup_body(env, file, fault, written, FALSE)

\* Mutant: the written file is not parsed back
setup_credentials_simple_unverified(env, file, fault, written) ==
    LET r == setup_body(env, file, fault, written, FALSE)
        b64 == env.GOOGLE_CREDENTIALS_BASE64
    IN
    IF /\ r.raised.any /\ fault = "none" /\ b64.set /\ b64.val # ""
       /\ b64decode(b64.val).ok
    THEN [r EXCEPT !.success = TRUE,
                   !.message = "Credentials successfully set up",
                   !.raised = NoException]
    ELSE r

setup_credentials_simple(env, file, fault, written) ==
    setup_body(env, file, fault, written, FALSE)

setup_credentials_start_mcp(env, file, fault, written) ==
    setup_body(env, file, fault, written, TRUE)

\* How many bytes can be on disk when f.write / close raises
WrittenChoices(env) ==
    LET dec == b64decode(env.GOOGLE_CREDENTIALS_BASE64.val) IN
    IF dec.ok /\ Len(dec.data) > 0 THEN 0..(Len(dec.data) - 1) ELSE {0}

(***************************************************************************)
(* Inputs of a run                                                         *)
(***************************************************************************)
Modules == {"full_mcp_api", "simple_api", "start_mcp", "http_server",
            "minimal_api"}
CredModules == {"full_mcp_api", "simple_api", "start_mcp"}
ApiModules == {"full_mcp_api", "simple_api"}

\* Values of GOOGLE_CREDENTIALS_BASE64: "" (empty), {} , [] , 1 , { ,
\* bad padding, one dangling character, a skipped character, a byte that
\* is not UTF-8, {} in white space
CredentialValues ==
    {"", "e30=", "W10=", "MQ==", "ew==", "e30", "e", "e3!0=", "/w==",
     "IHt9Cg=="}

FsFaults == {"none", "makedirs", "open", "write"}

NoFile == [exists |-> FALSE, data |-> <<>>]
OldFile == [exists |-> TRUE, data |-> <<91, 93>>]

NoRequest == [method |-> "", path |-> ""]
NoResponse == [status |-> 0]

(***************************************************************************)
(* The MCP tool registry (analytics_mcp.coordinator, filled when the tool  *)
(* modules are imported): an insertion-ordered mapping name -> function.   *)
(***************************************************************************)
MaxTools == 2

ToolNames == {"get_account_summaries", "get_property_details", "run_report"}

\* doc: the function's __doc__ (has_doc FALSE: None); schema: its
\* _mcp_input_schema attribute when it has one; coroutine: async def;
\* params / required: the keyword parameters it takes / cannot do without
ToolFunc(name) ==
    CASE name = "get_account_summaries" ->
            [name |-> name, has_doc |-> TRUE,
             doc |-> "Retrieves information about the user's accounts.",
             has_schema |-> FALSE, schema |-> "", coroutine |-> TRUE,
             params |-> {}, required |-> {}]
      [] name = "get_property_details" ->
            [name |-> name, has_doc |-> TRUE,
             doc |-> "Returns details about a property.",
             has_schema |-> TRUE, schema |-> "{property_id}",
             coroutine |-> FALSE,
             params |-> {"property_id"}, required |-> {"property_id"}]
      [] OTHER ->
            [name |-> name, has_doc |-> FALSE, doc |-> "",
             has_schema |-> TRUE, schema |-> "{property_id, limit}",
             coroutine |-> TRUE,
             params |-> {"property_id", "limit"},
             required |-> {"property_id"}]

RECURSIVE SeqsUpTo(_, _)
SeqsUpTo(S, n) ==
    IF n = 0 THEN {<<>>}
    ELSE LET shorter == SeqsUpTo(S, n - 1) IN
         shorter \cup {Append(q, x) : q \in shorter, x \in S}

Distinct(q) == \A i, j \in 1..Len(q) : i # j => q[i] # q[j]

\* The registries the tool modules can leave behind: keys are unique
Registries ==
    {[i \in 1..Len(q) |-> ToolFunc(q[i])] :
        q \in {r \in SeqsUpTo(ToolNames, MaxTools) : Distinct(r)}}

(***************************************************************************)
(* Initial state: the process before its module body runs                  *)
(***************************************************************************)
\* Everything a run starts from, given the module and the environment
InitWith(b64s, gacs, faults, files) ==
    /\ phase = "load"
    /\ IF module \in CredModules
       THEN /\ environ \in
                [GOOGLE_CREDENTIALS_BASE64 : b64s,
                 GOOGLE_APPLICATION_CREDENTIALS : gacs]
            /\ fsFault \in faults
            /\ credfile \in files
       ELSE /\ environ = [GOOGLE_CREDENTIALS_BASE64 |-> Unset,
                          GOOGLE_APPLICATION_CREDENTIALS |-> Unset]
            /\ fsFault = "none"
            /\ credfile = NoFile
    /\ libs \in (IF module \in ApiModules THEN BOOLEAN ELSE {TRUE})
    /\ raised = NoException
    /\ CREDS_SUCCESS = FALSE
    /\ CREDS_MESSAGE = ""
    /\ GA_AVAILABLE = FALSE
    /\ exit_code = -1
    /\ server_started = FALSE
    /\ tools = <<>>
    /\ req = NoRequest
    /\ resp = NoResponse
    /\ calls = <<>>
    /\ vendor = <<>>

\* Request handling: every module, with the credential variable unset or
\* holding a valid key, on a healthy file system
Init ==
    /\ module \in Modules
    /\ InitWith({Unset, SetTo("e30=")}, {Unset}, {"none"}, {NoFile})

\* Credential bootstrap: every credential value, file-system fault and
\* earlier state of the file and of GOOGLE_APPLICATION_CREDENTIALS
InitBoot ==
    /\ module \in CredModules
    /\ InitWith({Unset} \cup {SetTo(v) : v \in CredentialValues},
                {Unset, SetTo("/secrets/key.json")},
                FsFaults, {NoFile, OldFile})

(***************************************************************************)
(* Module startup                                                          *)
(***************************************************************************)
\* full_mcp_api: CREDS_SUCCESS, CREDS_MESSAGE = setup_credentials(), then
\* the guarded import that sets GA_AVAILABLE
full_startup ==
    /\ module = "full_mcp_api" /\ phase = "load"
    /\ \E written \in WrittenChoices(environ) :
         LET r == setup_credentials_full(environ, credfile, fsFault, written) IN
         /\ CREDS_SUCCESS' = r.success
         /\ CREDS_MESSAGE' = r.message
         /\ environ' = r.environ
         /\ credfile' = r.credfile
         /\ raised' = r.raised
    /\ GA_AVAILABLE' = libs
    /\ phase' = "serving"
    /\ UNCHANGED <<module, fsFault, libs, exit_code, server_started, tools>>
    /\ UNCHANGED requestVars

simple_startup ==
    /\ module = "simple_api" /\ phase = "load"
    /\ \E written \in WrittenChoices(environ) :
         LET r == setup_credentials_simple(environ, credfile, fsFault, written) IN
         /\ CREDS_SUCCESS' = r.success
         /\ CREDS_MESSAGE' = r.message
         /\ environ' = r.environ
         /\ credfile' = r.credfile
         /\ raised' = r.raised
    /\ GA_AVAILABLE' = libs
    /\ phase' = "serving"
    /\ UNCHANGED <<module, fsFault, libs, exit_code, server_started, tools>>
    /\ UNCHANGED requestVars

\* Mutant: start_mcp starts the server whatever the bootstrap returned
start_mcp_startup_nonfatal ==
    /\ module = "start_mcp" /\ phase = "load"
    /\ \E written \in WrittenChoices(environ) :
         LET r == setup_credentials_start_mcp(environ, credfile, fsFault, written) IN
         /\ CREDS_SUCCESS' = r.success
         /\ CREDS_MESSAGE' = r.message
         /\ environ' = r.environ
         /\ credfile' = r.credfile
         /\ raised' = r.raised
    /\ server_started' = TRUE
    /\ exit_code' = exit_code
    /\ phase' = "serving"
    /\ UNCHANGED <<module, fsFault, libs, GA_AVAILABLE, tools>>
    /\ UNCHANGED requestVars

\* start_mcp: exit(1) when the bootstrap failed, else run_server()
start_mcp_startup ==
    /\ module = "start_mcp" /\ phase = "load"
    /\ \E written \in WrittenChoices(environ) :
         LET r == setup_credentials_start_mcp(environ, credfile, fsFault, written) IN
         /\ CREDS_SUCCESS' = r.success
         /\ CREDS_MESSAGE' = r.message
         /\ environ' = r.environ
         /\ credfile' = r.credfile
         /\ raised' = r.raised
         /\ IF r.success
            THEN /\ server_started' = TRUE
                 /\ exit_code' = exit_code
                 /\ phase' = "serving"
            ELSE /\ server_started' = FALSE
                 /\ exit_code' = 1
                 /\ phase' = "exited"
    /\ UNCHANGED <<module, fsFault, libs, GA_AVAILABLE, tools>>
    /\ UNCHANGED requestVars

\* http_server: importing the tool modules registers the tools
http_server_startup ==
    /\ module = "http_server" /\ phase = "load"
    /\ tools' \in Registries
    /\ phase' = "serving"
    /\ UNCHANGED <<module, environ, fsFault, libs, credfile, raised,
                   CREDS_SUCCESS, CREDS_MESSAGE, GA_AVAILABLE, exit_code,
                   server_started>>
    /\ UNCHANGED requestVars

minimal_startup ==
    /\ module = "minimal_api" /\ phase = "load"
    /\ phase' = "serving"
    /\ UNCHANGED <<module, environ, fsFault, libs, credfile, raised,
                   CREDS_SUCCESS, CREDS_MESSAGE, GA_AVAILABLE, exit_code,
                   server_started, tools>>
    /\ UNCHANGED requestVars

(***************************************************************************)
(* FastAPI responses                                                       *)
(***************************************************************************)
\* A handler returned a dict: 200 with the dict as JSON object
Ok200(body) == [status |-> 200, kind |-> "object", body |-> body]

\* raise HTTPException(status_code=..., detail=...)
HTTPException(status_code, detail) ==
    [status |-> status_code, kind |-> "object", body |-> [detail |-> detail]]

Get(path) == [method |-> "GET", path |-> path]

Serving(m) == module = m /\ phase = "serving"

(***************************************************************************)
(* GET / and GET /health                                                   *)
(***************************************************************************)
full_root ==
    /\ Serving("full_mcp_api")
    /\ req' = Get("/")
    /\ resp' = Ok200([message |-> "Google Analytics Full MCP API",
                      version |-> "2.0.0",
                      status |-> "running",
                      ga_available |-> GA_AVAILABLE,
                      credentials_set |-> CREDS_SUCCESS,
                      credentials_message |-> CREDS_MESSAGE,
                      mcp_tools |-> <<"get_account_summaries",
                                      "get_property_details",
                                      "list_google_ads_links",
                                      "run_report",
                                      "run_realtime_report",
                                      "get_custom_dimensions_and_metrics">>])
    /\ calls' = <<>> /\ vendor' = <<>>
    /\ UNCHANGED startupVars

simple_root ==
    /\ Serving("simple_api")
    /\ req' = Get("/")
    /\ resp' = Ok200([message |-> "Google Analytics Simple API",
                      version |-> "1.0.0",
                      status |-> "running",
                      ga_available |-> GA_AVAILABLE,
                      credentials_set |-> CREDS_SUCCESS,
                      credentials_message |-> CREDS_MESSAGE])
    /\ calls' = <<>> /\ vendor' = <<>>
    /\ UNCHANGED startupVars

http_server_root ==
    /\ Serving("http_server")
    /\ req' = Get("/")
    /\ resp' = Ok200([status |-> "ok",
                      server |-> "Google Analytics MCP Server",
                      version |-> "0.1.1",
                      transport |-> "http"])
    /\ calls' = <<>> /\ vendor' = <<>>
    /\ UNCHANGED startupVars

minimal_read_root ==
    /\ Serving("minimal_api")
    /\ req' = Get("/")
    /\ resp' = Ok200([message |-> "Hello World from FastAPI!",
                      status |-> "working"])
    /\ calls' = <<>> /\ vendor' = <<>>
    /\ UNCHANGED startupVars

\* Mutant: health reflects the readiness flag
full_health_check_reporting_readiness ==
    /\ Serving("full_mcp_api")
    /\ req' = Get("/health")
    /\ resp' = IF GA_AVAILABLE
               THEN Ok200([status |-> "healthy",
                           service |-> "ga-full-mcp-api",
                           google_analytics |-> GA_AVAILABLE])
               ELSE [status |-> 503, kind |-> "object",
                     body |-> [status |-> "unhealthy",
                               service |-> "ga-full-mcp-api",
                               google_analytics |-> GA_AVAILABLE]]
    /\ calls' = <<>> /\ vendor' = <<>>
    /\ UNCHANGED startupVars

full_health_check ==
    /\ Serving("full_mcp_api")
    /\ req' = Get("/health")
    /\ resp' = Ok200([status |-> "healthy",
                      service |-> "ga-full-mcp-api",
                      google_analytics |-> GA_AVAILABLE])
    /\ calls' = <<>> /\ vendor' = <<>>
    /\ UNCHANGED startupVars

simple_health_check ==
    /\ Serving("simple_api")
    /\ req' = Get("/health")
    /\ resp' = Ok200([status |-> "healthy",
                      service |-> "ga-simple-api",
                      google_analytics |-> GA_AVAILABLE])
    /\ calls' = <<>> /\ vendor' = <<>>
    /\ UNCHANGED startupVars

http_server_health ==
    /\ Serving("http_server")
    /\ req' = Get("/health")
    /\ resp' = Ok200([status |-> "healthy"])
    /\ calls' = <<>> /\ vendor' = <<>>
    /\ UNCHANGED startupVars

minimal_health ==
    /\ Serving("minimal_api")
    /\ req' = Get("/health")
    /\ resp' = Ok200([status |-> "healthy"])
    /\ calls' = <<>> /\ vendor' = <<>>
    /\ UNCHANGED startupVars

(***************************************************************************)
(* GET /test and GET /debug                                                *)
(***************************************************************************)
\* bool(os.environ.get(name))
EnvBool(v) == v.set /\ v.val # ""

\* The "environment" object of GET /test.  GOOGLE_PROJECT_ID and PORT are
\* not variables of this model: they read as not set.
test_environment ==
    [GOOGLE_APPLICATION_CREDENTIALS |->
         EnvBool(environ.GOOGLE_APPLICATION_CREDENTIALS),
     GOOGLE_PROJECT_ID |-> "not_set",
     GOOGLE_CREDENTIALS_BASE64 |-> EnvBool(environ.GOOGLE_CREDENTIALS_BASE64),
     PORT |-> "9000"]

full_test_endpoint ==
    /\ Serving("full_mcp_api")
    /\ req' = Get("/test")
    /\ resp' = Ok200([message |-> "Full MCP API Test endpoint working!",
                      environment |-> test_environment,
                      available_endpoints |->
                          <<"GET /accounts - get_account_summaries",
                            "GET /property/{property_id} - get_property_details",
                            "GET /ads-links/{property_id} - list_google_ads_links",
                            "POST /report - run_report",
                            "POST /realtime-report/{property_id} - run_realtime_report",
                            "GET /custom-dimensions-metrics/{property_id} - get_custom_dimensions_and_metrics",
                            "GET /properties - list_all_properties",
                            "GET /properties/summary - get_properties_summary">>])
    /\ calls' = <<>> /\ vendor' = <<>>
    /\ UNCHANGED startupVars

simple_test_endpoint ==
    /\ Serving("simple_api")
    /\ req' = Get("/test")
    /\ resp' = Ok200([message |-> "Test endpoint working!",
                      environment |-> test_environment])
    /\ calls' = <<>> /\ vendor' = <<>>
    /\ UNCHANGED startupVars

\* first_chars: "" when the file does not exist, f.read(50) of the file
\* opened as text, "(read error)" when that raises (bytes that are not
\* UTF-8).  chars holds the characters read, as their code points.
first_chars(file) ==
    IF ~file.exists THEN [read_error |-> FALSE, chars |-> <<>>]
    ELSE IF \E i \in 1..Len(file.data) : file.data[i] >= 128
    THEN [read_error |-> TRUE, chars |-> <<>>]
    ELSE [read_error |-> FALSE,
          chars |-> SubSeq(file.data, 1,
                           IF Len(file.data) < 50 THEN Len(file.data) ELSE 50)]

file_status ==
    [exists |-> credfile.exists,
     size |-> IF credfile.exists THEN Len(credfile.data) ELSE 0,
     first_chars |-> first_chars(credfile)]

\* The "environment" object of GET /debug
debug_environment ==
    [GOOGLE_APPLICATION_CREDENTIALS |-> environ.GOOGLE_APPLICATION_CREDENTIALS,
     GOOGLE_CREDENTIALS_BASE64_LENGTH |->
         IF environ.GOOGLE_CREDENTIALS_BASE64.set
         THEN Len(environ.GOOGLE_CREDENTIALS_BASE64.val) ELSE 0]

\* Mutant: GET /debug runs the bootstrap again and reports its new result
full_debug_endpoint_recomputing ==
    /\ Serving("full_mcp_api")
    /\ req' = Get("/debug")
    /\ LET r == setup_credentials_full(environ, credfile, fsFault, 0) IN
         /\ CREDS_SUCCESS' = r.success
         /\ CREDS_MESSAGE' = r.message
         /\ environ' = r.environ
         /\ credfile' = r.credfile
         /\ raised' = r.raised
         /\ resp' = Ok200([credentials_setup |-> [success |-> r.success,
                                                  message |-> r.message],
                           file_status |-> file_status,
                           environment |-> debug_environment,
                           mcp_tools_status |->
                               [ga_libraries_available |-> GA_AVAILABLE,
                                credentials_configured |-> r.success,
                                all_tools_ready |-> GA_AVAILABLE /\ r.success]])
    /\ calls' = <<>> /\ vendor' = <<>>
    /\ UNCHANGED <<module, phase, fsFault, libs, GA_AVAILABLE, exit_code,
                   server_started, tools>>

full_debug_endpoint ==
    /\ Serving("full_mcp_api")
    /\ req' = Get("/debug")
    /\ resp' = Ok200([credentials_setup |-> [success |-> CREDS_SUCCESS,
                                             message |-> CREDS_MESSAGE],
                      file_status |-> file_status,
                      environment |-> debug_environment,
                      mcp_tools_status |->
                          [ga_libraries_available |-> GA_AVAILABLE,
                           credentials_configured |-> CREDS_SUCCESS,
                           all_tools_ready |-> GA_AVAILABLE /\ CREDS_SUCCESS]])
    /\ calls' = <<>> /\ vendor' = <<>>
    /\ UNCHANGED startupVars

simple_debug_endpoint ==
    /\ Serving("simple_api")
    /\ req' = Get("/debug")
    /\ resp' = Ok200([credentials_setup |-> [success |-> CREDS_SUCCESS,
                                             message |-> CREDS_MESSAGE],
                      file_status |-> file_status,
                      environment |-> debug_environment])
    /\ calls' = <<>> /\ vendor' = <<>>
    /\ UNCHANGED startupVars

\* What happens around a serving app: the credentials file is removed or
\* replaced, the credential variables are cleared.  No handler does this;
\* GET /debug and GET /test read the file and the variables on each request.
outside_change ==
    /\ module \in ApiModules /\ phase = "serving"
    /\ \E file \in {credfile, NoFile, OldFile} :
       \E env \in {environ, [GOOGLE_CREDENTIALS_BASE64 |-> Unset,
                             GOOGLE_APPLICATION_CREDENTIALS |-> Unset]} :
          /\ <<file, env>> # <<credfile, environ>>
          /\ credfile' = file
          /\ environ' = env
    /\ UNCHANGED <<module, phase, fsFault, libs, raised, CREDS_SUCCESS,
                   CREDS_MESSAGE, GA_AVAILABLE, exit_code, server_started,
                   tools>>
    /\ UNCHANGED requestVars

(***************************************************************************)
(* The vendor SDK: what a client call answers is an input of the request   *)
(***************************************************************************)
MaxRows == 2

\* str(e) of the exceptions the SDK raises
Causes == {"403 permission denied", "deadline exceeded"}

Returns == [raises |-> FALSE, cause |-> ""]
Raises(c) == [raises |-> TRUE, cause |-> c]
Outcomes == {Returns} \cup {Raises(c) : c \in Causes}

\* Optional JSON string: None is null
None == [none |-> TRUE, s |-> ""]
Some(s) == [none |-> FALSE, s |-> s]

\* protobuf Timestamp fields: unset (falsy) or a day of January 2024
NoTime == [set |-> FALSE, day |-> 0]
TimeAt(d) == [set |-> TRUE, day |-> d]
\* str(timestamp); str(None) for an unset field
StrTime(t) ==
    IF t.set THEN "2024-01-0" \o StrInt(t.day) \o " 00:00:00+00:00" ELSE "None"

\* getattr(obj, field, default)
GetAttr(obj, f, default) == IF f \in DOMAIN obj THEN obj[f] ELSE default

\* s.split('/')[-1]
RECURSIVE LastSegmentFrom(_, _)
LastSegmentFrom(s, i) ==
    IF i = 0 THEN s
    ELSE IF Char(s, i) = "/" THEN SubSeq(s, i + 1, Len(s))
    ELSE LastSegmentFrom(s, i - 1)
LastSegment(s) == LastSegmentFrom(s, Len(s))

AccountObjs ==
    {[name |-> "accounts/1", display_name |-> "Acme",
      create_time |-> TimeAt(1), update_time |-> TimeAt(2)],
     [name |-> "accounts/2", display_name |-> "",
      create_time |-> NoTime, update_time |-> NoTime]}

PropertyObjs ==
    {[name |-> "properties/11", display_name |-> "Site",
      create_time |-> TimeAt(3), update_time |-> TimeAt(4),
      time_zone |-> "UTC", currency_code |-> "USD",
      industry_category |-> "TECHNOLOGY",
      service_level |-> "GOOGLE_ANALYTICS_STANDARD",
      property_type |-> "PROPERTY_TYPE_ORDINARY"],
     [name |-> "", display_name |-> "",
      create_time |-> NoTime, update_time |-> NoTime,
      time_zone |-> "", currency_code |-> "",
      industry_category |-> "INDUSTRY_CATEGORY_UNSPECIFIED",
      service_level |-> "SERVICE_LEVEL_UNSPECIFIED",
      property_type |-> "PROPERTY_TYPE_UNSPECIFIED"]}

\* What list_accounts() can answer
AccountLists ==
    {<<>>} \cup {<<a>> : a \in AccountObjs}
           \cup {ab \in AccountObjs \X AccountObjs : ab[1] # ab[2]}

\* What list_properties(parent=account.name) answers for one account
PropertyLists ==
    {<<>>} \cup {<<p>> : p \in PropertyObjs}
           \cup {pq \in PropertyObjs \X PropertyObjs : pq[1] # pq[2]}
ListPropertiesOutcomes ==
    {[raises |-> FALSE, cause |-> "", items |-> ps] : ps \in PropertyLists}
    \cup {[raises |-> TRUE, cause |-> "quota exceeded", items |-> <<>>]}

\* The SDK's answers to a handler that lists accounts and their properties
AccountListings ==
    {[ctor |-> Raises(c), list_accounts |-> Returns, accounts |-> <<>>,
      list_properties |-> <<>>] : c \in Causes}
    \cup {[ctor |-> Returns, list_accounts |-> Raises(c), accounts |-> <<>>,
           list_properties |-> <<>>] : c \in Causes}
    \cup UNION {
           {[ctor |-> Returns, list_accounts |-> Returns, accounts |-> as,
             list_properties |-> lp] :
                lp \in [1..Len(as) -> ListPropertiesOutcomes]} :
           as \in AccountLists}

\* The calls such a handler makes, in order
AccountListingCalls(v) ==
    <<"AnalyticsAdminServiceClient">>
    \o (IF v.ctor.raises THEN <<>> ELSE <<"list_accounts">>)
    \o [i \in 1..Len(v.accounts) |-> "list_properties"]

NotAvailable ==
    HTTPException(500, "Google Analytics libraries not available")

(***************************************************************************)
(* full_mcp_api: GET /accounts                                             *)
(***************************************************************************)
full_account_property(prop) ==
    [name |-> prop.name,
     display_name |-> prop.display_name,
     property_id |-> LastSegment(prop.name),
     create_time |-> IF prop.create_time.set
                     THEN Some(StrTime(prop.create_time)) ELSE None,
     website_url |-> GetAttr(prop, "website_url", ""),
     time_zone |-> GetAttr(prop, "time_zone", ""),
     currency_code |-> GetAttr(prop, "currency_code", "")]

full_account(account, lp) ==
    [name |-> account.name,
     display_name |-> account.display_name,
     create_time |-> IF account.create_time.set
                     THEN Some(StrTime(account.create_time)) ELSE None,
     update_time |-> IF account.update_time.set
                     THEN Some(StrTime(account.update_time)) ELSE None,
     account_type |-> GetAttr(account, "account_type", "STANDARD"),
     properties |-> IF lp.raises THEN <<>>
                    ELSE [j \in 1..Len(lp.items) |->
                             full_account_property(lp.items[j])]]

\* Mutant: a failing list_properties fails the whole request
get_account_summaries_all_or_nothing(v) ==
    IF v.ctor.raises
    THEN HTTPException(500, "Error fetching accounts: " \o v.ctor.cause)
    ELSE IF v.list_accounts.raises
    THEN HTTPException(500, "Error fetching accounts: "
                            \o v.list_accounts.cause)
    ELSE IF \E i \in 1..Len(v.accounts) : v.list_properties[i].raises
    THEN HTTPException(500, "Error fetching accounts: quota exceeded")
    ELSE Ok200([accounts |->
                  [i \in 1..Len(v.accounts) |->
                      full_account(v.accounts[i], v.list_properties[i])]])

get_account_summaries(v) ==
    IF v.ctor.raises
    THEN HTTPException(500, "Error fetching accounts: " \o v.ctor.cause)
    ELSE IF v.list_accounts.raises
    THEN HTTPException(500, "Error fetching accounts: " \o v.list_accounts.cause)
    ELSE Ok200([accounts |->
                  [i \in 1..Len(v.accounts) |->
                      full_account(v.accounts[i], v.list_properties[i])]])

full_get_account_summaries ==
    /\ Serving("full_mcp_api")
    /\ req' = Get("/accounts")
    /\ IF ~GA_AVAILABLE
       THEN resp' = NotAvailable /\ calls' = <<>> /\ vendor' = <<>>
       ELSE \E v \in AccountListings :
               /\ resp' = get_account_summaries(v)
               /\ calls' = AccountListingCalls(v)
               /\ vendor' = v
    /\ UNCHANGED startupVars

(***************************************************************************)
(* full_mcp_api: GET /properties and GET /properties/summary               *)
(***************************************************************************)
full_listed_property(prop, account) ==
    [property_id |-> IF prop.name # "" THEN LastSegment(prop.name)
                     ELSE "unknown",
     name |-> prop.name,
     display_name |-> prop.display_name,
     account_name |-> account.display_name,
     account_id |-> account.name,
     website_url |-> GetAttr(prop, "website_url", ""),
     time_zone |-> GetAttr(prop, "time_zone", ""),
     currency_code |-> GetAttr(prop, "currency_code", ""),
     create_time |-> IF "create_time" \in DOMAIN prop /\ prop.create_time.set
                     THEN Some(StrTime(prop.create_time)) ELSE None,
     property_type |-> "PropertyType."
                       \o GetAttr(prop, "property_type", "STANDARD")]

summary_property(prop, account) ==
    [property_id |-> IF prop.name # "" THEN LastSegment(prop.name)
                     ELSE "unknown",
     display_name |-> prop.display_name,
     account |-> account.display_name]

\* all_properties after the loop over the accounts: each account appends
\* its shaped properties, an account whose list_properties raised appends
\* nothing (except: continue)
RECURSIVE Concat(_)
Concat(lists) ==
    IF lists = <<>> THEN <<>> ELSE Head(lists) \o Concat(Tail(lists))

\* all_properties of list_all_properties after the loop
all_properties(accounts, lps) ==
    Concat([i \in 1..Len(accounts) |->
               IF lps[i].raises THEN <<>>
               ELSE [j \in 1..Len(lps[i].items) |->
                        full_listed_property(lps[i].items[j], accounts[i])]])

\* summary of get_properties_summary after the loop
summary(accounts, lps) ==
    Concat([i \in 1..Len(accounts) |->
               IF lps[i].raises THEN <<>>
               ELSE [j \in 1..Len(lps[i].items) |->
                        summary_property(lps[i].items[j], accounts[i])]])

list_all_properties(v) ==
    IF v.ctor.raises
    THEN HTTPException(500, "Error fetching properties: " \o v.ctor.cause)
    ELSE IF v.list_accounts.raises
    THEN HTTPException(500, "Error fetching properties: "
                            \o v.list_accounts.cause)
    ELSE LET listed == all_properties(v.accounts, v.list_properties)
         IN Ok200([properties |-> listed, total_count |-> Len(listed)])

\* Mutant: a failing list_accounts is swallowed like a failing list_properties
get_properties_summary_swallowing(v) ==
    IF v.ctor.raises
    THEN HTTPException(500, "Error: " \o v.ctor.cause)
    ELSE IF v.list_accounts.raises
    THEN Ok200([properties |-> <<>>])
    ELSE Ok200([properties |->
                  summary(v.accounts, v.list_properties)])

get_properties_summary(v) ==
    IF v.ctor.raises
    THEN HTTPException(500, "Error: " \o v.ctor.cause)
    ELSE IF v.list_accounts.raises
    THEN HTTPException(500, "Error: " \o v.list_accounts.cause)
    ELSE Ok200([properties |->
                  summary(v.accounts, v.list_properties)])

full_list_all_properties ==
    /\ Serving("full_mcp_api")
    /\ req' = Get("/properties")
    /\ IF ~GA_AVAILABLE
       THEN resp' = NotAvailable /\ calls' = <<>> /\ vendor' = <<>>
       ELSE \E v \in AccountListings :
               /\ resp' = list_all_properties(v)
               /\ calls' = AccountListingCalls(v)
               /\ vendor' = v
    /\ UNCHANGED startupVars

full_get_properties_summary ==
    /\ Serving("full_mcp_api")
    /\ req' = Get("/properties/summary")
    /\ IF ~GA_AVAILABLE
       THEN resp' = NotAvailable /\ calls' = <<>> /\ vendor' = <<>>
       ELSE \E v \in AccountListings :
               /\ resp' = get_properties_summary(v)
               /\ calls' = AccountListingCalls(v)
               /\ vendor' = v
    /\ UNCHANGED startupVars

(***************************************************************************)
(* full_mcp_api: GET /property/{property_id}                               *)
(***************************************************************************)
PropertyIds == {"11", "404"}

GetWith(path, property_id) ==
    [method |-> "GET", path |-> path, property_id |-> property_id]
PostWith(path, property_id) ==
    [method |-> "POST", path |-> path, property_id |-> property_id]

\* The SDK's answers to get_property_details
PropertyAnswers ==
    {[ctor |-> Raises(c), call |-> Returns] : c \in Causes}
    \cup {[ctor |-> Returns, call |-> Raises(c)] : c \in Causes}
    \cup {[ctor |-> Returns, call |-> Returns, property |-> p] :
             p \in PropertyObjs}

OptTime(obj, f) ==
    IF f \in DOMAIN obj /\ obj[f].set THEN Some(StrTime(obj[f])) ELSE None
OptAttr(obj, f) == IF f \in DOMAIN obj THEN Some(obj[f]) ELSE None

get_property_details(property_id, v) ==
    IF v.ctor.raises
    THEN HTTPException(500, "Error fetching property details: " \o v.ctor.cause)
    ELSE IF v.call.raises
    THEN HTTPException(500, "Error fetching property details: " \o v.call.cause)
    ELSE LET property_details == v.property IN
         Ok200([name |-> property_details.name,
                display_name |-> property_details.display_name,
                property_id |-> property_id,
                create_time |-> OptTime(property_details, "create_time"),
                update_time |-> OptTime(property_details, "update_time"),
                website_url |-> GetAttr(property_details, "website_url", ""),
                time_zone |-> GetAttr(property_details, "time_zone", ""),
                currency_code |-> GetAttr(property_details, "currency_code", ""),
                industry_category |-> OptAttr(property_details, "industry_category"),
                service_level |-> OptAttr(property_details, "service_level"),
                property_type |-> OptAttr(property_details, "property_type")])

\* The calls of a handler that builds a client and makes one call
OneCall(ctor_name, call_name, v) ==
    <<ctor_name>> \o (IF v.ctor.raises THEN <<>> ELSE <<call_name>>)

full_get_property_details ==
    /\ Serving("full_mcp_api")
    /\ \E property_id \in PropertyIds :
         /\ req' = GetWith("/property/{property_id}", property_id)
         /\ IF ~GA_AVAILABLE
            THEN resp' = NotAvailable /\ calls' = <<>> /\ vendor' = <<>>
            ELSE \E v \in PropertyAnswers :
                   /\ resp' = get_property_details(property_id, v)
                   /\ calls' = OneCall("AnalyticsAdminServiceClient",
                                       "get_property", v)
                   /\ vendor' = v
    /\ UNCHANGED startupVars

(***************************************************************************)
(* full_mcp_api: GET /ads-links/{property_id}                              *)
(***************************************************************************)
LinkObjs ==
    {[name |-> "properties/11/googleAdsLinks/7", customer_id |-> "123-456",
      ads_personalization_enabled |-> TRUE,
      create_time |-> TimeAt(5), update_time |-> NoTime],
     [name |-> "", customer_id |-> "",
      ads_personalization_enabled |-> FALSE,
      create_time |-> NoTime, update_time |-> NoTime]}

LinkLists ==
    {<<>>} \cup {<<l>> : l \in LinkObjs}
           \cup {lm \in LinkObjs \X LinkObjs : lm[1] # lm[2]}

AdsLinksAnswers ==
    {[ctor |-> Raises(c), call |-> Returns, links |-> <<>>] : c \in Causes}
    \cup {[ctor |-> Returns, call |-> Raises(c), links |-> <<>>] : c \in Causes}
    \cup {[ctor |-> Returns, call |-> Returns, links |-> ls] : ls \in LinkLists}

ads_link(link) ==
    [name |-> link.name,
     display_name |-> GetAttr(link, "display_name", ""),
     customer_id |-> GetAttr(link, "customer_id", ""),
     ads_personalization_enabled |->
         GetAttr(link, "ads_personalization_enabled", FALSE),
     create_time |-> OptTime(link, "create_time"),
     update_time |-> OptTime(link, "update_time"),
     link_id |-> IF link.name # "" THEN Some(LastSegment(link.name)) ELSE None]

list_google_ads_links(v) ==
    IF v.ctor.raises
    THEN HTTPException(500, "Error fetching Google Ads links: " \o v.ctor.cause)
    ELSE IF v.call.raises
    THEN HTTPException(500, "Error fetching Google Ads links: " \o v.call.cause)
    ELSE Ok200([links |-> [i \in 1..Len(v.links) |-> ads_link(v.links[i])]])

full_list_google_ads_links ==
    /\ Serving("full_mcp_api")
    /\ \E property_id \in PropertyIds :
         /\ req' = GetWith("/ads-links/{property_id}", property_id)
         /\ IF ~GA_AVAILABLE
            THEN resp' = NotAvailable /\ calls' = <<>> /\ vendor' = <<>>
            ELSE \E v \in AdsLinksAnswers :
                   /\ resp' = list_google_ads_links(v)
                   /\ calls' = OneCall("AnalyticsAdminServiceClient",
                                       "list_google_ads_links", v)
                   /\ vendor' = v
    /\ UNCHANGED startupVars

(***************************************************************************)
(* full_mcp_api: GET /custom-dimensions-metrics/{property_id}              *)
(***************************************************************************)
DimensionObjs ==
    {[name |-> "properties/11/customDimensions/3", display_name |-> "Plan",
      parameter_name |-> "plan", scope |-> "USER", description |-> "",
      disallow_ads_personalization |-> FALSE]}

MetricObjs ==
    {[name |-> "properties/11/customMetrics/5", display_name |-> "Credits",
      parameter_name |-> "credits", measurement_unit |-> "STANDARD",
      scope |-> "EVENT", description |-> "",
      restricted_metric_type |-> <<>>]}

ListOutcomes(objs) ==
    {[raises |-> FALSE, cause |-> "", items |-> <<>>]}
    \cup {[raises |-> FALSE, cause |-> "", items |-> <<o>>] : o \in objs}
    \cup {[raises |-> TRUE, cause |-> "quota exceeded", items |-> <<>>]}

CustomAnswers ==
    {[ctor |-> Raises(c)] : c \in Causes}
    \cup {[ctor |-> Returns, dims |-> d, mets |-> m] :
             d \in ListOutcomes(DimensionObjs), m \in ListOutcomes(MetricObjs)}

custom_dimension(dimension) ==
    [name |-> dimension.name,
     display_name |-> dimension.display_name,
     parameter_name |-> dimension.parameter_name,
     dimension_id |-> IF dimension.name # ""
                      THEN Some(LastSegment(dimension.name)) ELSE None,
     scope |-> OptAttr(dimension, "scope"),
     description |-> GetAttr(dimension, "description", ""),
     disallow_ads_personalization |->
         GetAttr(dimension, "disallow_ads_personalization", FALSE)]

custom_metric(metric) ==
    [name |-> metric.name,
     display_name |-> metric.display_name,
     parameter_name |-> metric.parameter_name,
     metric_id |-> IF metric.name # ""
                   THEN Some(LastSegment(metric.name)) ELSE None,
     measurement_unit |-> OptAttr(metric, "measurement_unit"),
     scope |-> OptAttr(metric, "scope"),
     description |-> GetAttr(metric, "description", ""),
     restricted_metric_type |-> GetAttr(metric, "restricted_metric_type", <<>>)]

get_custom_dimensions_and_metrics(property_id, v) ==
    IF v.ctor.raises
    THEN HTTPException(500, "Error fetching custom dimensions and metrics: "
                            \o v.ctor.cause)
    ELSE Ok200([property_id |-> property_id,
                custom_dimensions |->
                    IF v.dims.raises THEN <<>>
                    ELSE [i \in 1..Len(v.dims.items) |->
                             custom_dimension(v.dims.items[i])],
                custom_metrics |->
                    IF v.mets.raises THEN <<>>
                    ELSE [i \in 1..Len(v.mets.items) |->
                             custom_metric(v.mets.items[i])]])

\* Mutant: the handler without its readiness check
full_get_custom_dimensions_and_metrics_unguarded ==
    /\ Serving("full_mcp_api")
    /\ \E property_id \in PropertyIds :
         /\ req' = GetWith("/custom-dimensions-metrics/{property_id}",
                           property_id)
         /\ \E v \in CustomAnswers :
              /\ resp' = get_custom_dimensions_and_metrics(property_id, v)
              /\ calls' = <<"AnalyticsAdminServiceClient">>
                          \o (IF v.ctor.raises THEN <<>>
                              ELSE <<"list_custom_dimensions",
                                     "list_custom_metrics">>)
              /\ vendor' = v
    /\ UNCHANGED startupVars

full_get_custom_dimensions_and_metrics ==
    /\ Serving("full_mcp_api")
    /\ \E property_id \in PropertyIds :
         /\ req' = GetWith("/custom-dimensions-metrics/{property_id}",
                           property_id)
         /\ IF ~GA_AVAILABLE
            THEN resp' = NotAvailable /\ calls' = <<>> /\ vendor' = <<>>
            ELSE \E v \in CustomAnswers :
                   /\ resp' = get_custom_dimensions_and_metrics(property_id, v)
                   /\ calls' = <<"AnalyticsAdminServiceClient">>
                               \o (IF v.ctor.raises THEN <<>>
                                   ELSE <<"list_custom_dimensions",
                                          "list_custom_metrics">>)
                   /\ vendor' = v
    /\ UNCHANGED startupVars

(***************************************************************************)
(* JSON values of request bodies                                           *)
(***************************************************************************)
JMissing == [t |-> "missing", s |-> "", items |-> <<>>]  \* key absent
JNull == [t |-> "null", s |-> "", items |-> <<>>]
JStr(x) == [t |-> "string", s |-> x, items |-> <<>>]
JNum(x) == [t |-> "number", s |-> x, items |-> <<>>]
JArr(xs) == [t |-> "array", s |-> "", items |-> xs]
JObj == [t |-> "object", s |-> "", items |-> <<>>]       \* some nested object

(***************************************************************************)
(* ReportRequest (pydantic BaseModel): a str field takes a JSON string, a  *)
(* List[str] field an array of JSON strings; a missing field takes its     *)
(* default, property_id has none.                                          *)
(***************************************************************************)
IsStr(j) == j.t = "string"
IsStrList(j) ==
    j.t = "array" /\ \A i \in 1..Len(j.items) : j.items[i].t = "string"

StrField(j, has_default) ==
    IF j.t = "missing" THEN has_default ELSE IsStr(j)
StrListField(j) ==
    IF j.t = "missing" THEN TRUE ELSE IsStrList(j)

\* Whether the body deserializes into ReportRequest
ReportRequestValid(body) ==
    /\ body.t = "object"
    /\ StrField(body.property_id, FALSE)
    /\ StrField(body.start_date, TRUE)
    /\ StrField(body.end_date, TRUE)
    /\ StrListField(body.metrics)
    /\ StrListField(body.dimensions)

\* The ReportRequest object built from a valid body
ReportRequest(body) ==
    [property_id |-> body.property_id.s,
     start_date |-> IF body.start_date.t = "missing" THEN "7daysAgo"
                    ELSE body.start_date.s,
     end_date |-> IF body.end_date.t = "missing" THEN "today"
                  ELSE body.end_date.s,
     metrics |-> IF body.metrics.t = "missing" THEN <<"sessions", "users">>
                 ELSE [i \in 1..Len(body.metrics.items) |->
                          body.metrics.items[i].s],
     dimensions |-> IF body.dimensions.t = "missing" THEN <<"country">>
                    ELSE [i \in 1..Len(body.dimensions.items) |->
                             body.dimensions.items[i].s]]

Body(property_id, start_date, end_date, metrics, dimensions) ==
    [t |-> "object", property_id |-> property_id, start_date |-> start_date,
     end_date |-> end_date, metrics |-> metrics, dimensions |-> dimensions]

\* The bodies POST /report is sent
ReportBodies ==
    {Body(JStr("11"), JMissing, JMissing, JMissing, JMissing),
     Body(JStr("404"), JStr("2024-01-01"), JStr("today"),
          JArr(<<JStr("sessions")>>), JArr(<<>>)),
     Body(JMissing, JMissing, JMissing, JMissing, JMissing),
     Body(JNum("11"), JMissing, JMissing, JMissing, JMissing),
     Body(JObj, JMissing, JMissing, JMissing, JMissing),
     Body(JStr("11"), JNull, JMissing, JMissing, JMissing),
     Body(JStr("11"), JMissing, JArr(<<>>), JMissing, JMissing),
     Body(JStr("11"), JMissing, JMissing, JStr("sessions"), JMissing),
     Body(JStr("11"), JMissing, JMissing, JArr(<<JStr("sessions"), JNull>>),
          JMissing),
     Body(JStr("11"), JMissing, JMissing, JMissing, JArr(<<JObj>>)),
     [t |-> "array"]}

\* FastAPI answers a body that fails validation itself, before the handler
ValidationError ==
    [status |-> 422, kind |-> "object",
     body |-> [detail |-> "ReportRequest validation errors"]]

(***************************************************************************)
(* Reports: the vendor response and the body made from it                  *)
(***************************************************************************)
Header(n) == [name |-> n]
Value(x) == [value |-> x]

DimensionHeaderLists ==
    {<<Header("country")>>, <<Header("city"), Header("country")>>}
MetricHeaderLists ==
    {<<>>, <<Header("sessions"), Header("users")>>}

\* A row of the Data API holds one value per header of the response, in
\* header order
DimensionValueLists(n) ==
    IF n = 1 THEN {<<Value("US")>>, <<Value("PL")>>}
    ELSE {<<Value("NYC"), Value("US")>>, <<Value("WAW"), Value("PL")>>}
MetricValueLists(n) ==
    IF n = 0 THEN {<<>>} ELSE {<<Value("42"), Value("7")>>}

RowObjs(dimension_headers, metric_headers) ==
    [dimension_values : DimensionValueLists(Len(dimension_headers)),
     metric_values : MetricValueLists(Len(metric_headers))]

ReportResponses ==
    UNION {{[dimension_headers |-> dh, metric_headers |-> mh, rows |-> rs] :
               rs \in SeqsUpTo(RowObjs(dh, mh), MaxRows)} :
           dh \in DimensionHeaderLists, mh \in MetricHeaderLists}

ReportAnswers ==
    {[ctor |-> Raises(c), call |-> Returns] : c \in Causes}
    \cup {[ctor |-> Returns, call |-> Raises(c)] : c \in Causes}
    \cup {[ctor |-> Returns, call |-> Returns, response |-> r] :
             r \in ReportResponses}

\* [header.name for header in headers]
HeaderNames(headers) == [i \in 1..Len(headers) |-> headers[i].name]
\* [value.value for value in values]
Values(values) == [i \in 1..Len(values) |-> values[i].value]

\* Mutant: a row keeps only its first dimension value
format_row_first_dimension(row) ==
    [dimensions |-> [i \in 1..(IF row.dimension_values = <<>> THEN 0 ELSE 1) |->
                        row.dimension_values[i].value],
     metrics |-> [i \in 1..Len(row.metric_values) |->
                     row.metric_values[i].value]]

format_row(row) ==
    [dimensions |-> Values(row.dimension_values),
     metrics |-> Values(row.metric_values)]

\* Mutant: each row is inserted at the front instead of appended
RECURSIVE format_rows_prepending(_)
format_rows_prepending(rows) ==
    IF rows = <<>> THEN <<>>
    ELSE format_rows_prepending(Tail(rows)) \o <<format_row(Head(rows))>>

\* result["rows"] after the loop of appends
RECURSIVE format_rows(_)
format_rows(rows) ==
    IF rows = <<>> THEN <<>>
    ELSE <<format_row(Head(rows))>> \o format_rows(Tail(rows))

format_response(response) ==
    [dimension_headers |-> HeaderNames(response.dimension_headers),
     metric_headers |-> HeaderNames(response.metric_headers),
     rows |-> format_rows(response.rows)]

run_report(v) ==
    IF v.ctor.raises
    THEN HTTPException(500, "Error running report: " \o v.ctor.cause)
    ELSE IF v.call.raises
    THEN HTTPException(500, "Error running report: " \o v.call.cause)
    ELSE Ok200(format_response(v.response))

run_realtime_report(v) ==
    IF v.ctor.raises
    THEN HTTPException(500, "Error running realtime report: " \o v.ctor.cause)
    ELSE IF v.call.raises
    THEN HTTPException(500, "Error running realtime report: " \o v.call.cause)
    ELSE Ok200(format_response(v.response))

\* Mutant: the readiness check runs before the body is validated
post_report_readiness_first ==
    /\ phase = "serving"
    /\ \E body \in ReportBodies :
         /\ req' = [method |-> "POST", path |-> "/report", body |-> body]
         /\ IF ~GA_AVAILABLE
            THEN resp' = NotAvailable /\ calls' = <<>> /\ vendor' = <<>>
            ELSE IF ~ReportRequestValid(body)
            THEN resp' = ValidationError /\ calls' = <<>> /\ vendor' = <<>>
            ELSE \E v \in ReportAnswers :
                   /\ resp' = run_report(v)
                   /\ calls' = OneCall("BetaAnalyticsDataClient",
                                       "run_report", v)
                   /\ vendor' = v
    /\ UNCHANGED startupVars

\* POST /report: validation, readiness check, handler
post_report ==
    /\ phase = "serving"
    /\ \E body \in ReportBodies :
         /\ req' = [method |-> "POST", path |-> "/report", body |-> body]
         /\ IF ~ReportRequestValid(body)
            THEN resp' = ValidationError /\ calls' = <<>> /\ vendor' = <<>>
            ELSE IF ~GA_AVAILABLE
            THEN resp' = NotAvailable /\ calls' = <<>> /\ vendor' = <<>>
            ELSE \E v \in ReportAnswers :
                   /\ resp' = run_report(v)
                   /\ calls' = OneCall("BetaAnalyticsDataClient",
                                       "run_report", v)
                   /\ vendor' = v
    /\ UNCHANGED startupVars

post_realtime_report ==
    /\ phase = "serving"
    /\ \E property_id \in PropertyIds :
         /\ req' = PostWith("/realtime-report/{property_id}", property_id)
         /\ IF ~GA_AVAILABLE
            THEN resp' = NotAvailable /\ calls' = <<>> /\ vendor' = <<>>
            ELSE \E v \in ReportAnswers :
                   /\ resp' = run_realtime_report(v)
                   /\ calls' = OneCall("BetaAnalyticsDataClient",
                                       "run_realtime_report", v)
                   /\ vendor' = v
    /\ UNCHANGED startupVars

full_run_report ==
    /\ module = "full_mcp_api"
    /\ post_report

full_run_realtime_report ==
    /\ module = "full_mcp_api"
    /\ post_realtime_report

simple_run_report ==
    /\ module = "simple_api"
    /\ post_report

simple_run_realtime_report ==
    /\ module = "simple_api"
    /\ post_realtime_report

(***************************************************************************)
(* simple_api: GET /accounts                                               *)
(***************************************************************************)
SimpleAccountAnswers ==
    {[ctor |-> Raises(c), call |-> Returns, accounts |-> <<>>] : c \in Causes}
    \cup {[ctor |-> Returns, call |-> Raises(c), accounts |-> <<>>] :
             c \in Causes}
    \cup {[ctor |-> Returns, call |-> Returns, accounts |-> as] :
             as \in AccountLists}

simple_account(account) ==
    [name |-> account.name,
     display_name |-> account.display_name,
     create_time |-> StrTime(account.create_time),
     update_time |-> StrTime(account.update_time)]

get_accounts(v) ==
    IF v.ctor.raises
    THEN HTTPException(500, "Error fetching accounts: " \o v.ctor.cause)
    ELSE IF v.call.raises
    THEN HTTPException(500, "Error fetching accounts: " \o v.call.cause)
    ELSE Ok200([accounts |->
                  [i \in 1..Len(v.accounts) |-> simple_account(v.accounts[i])]])

simple_get_accounts ==
    /\ Serving("simple_api")
    /\ req' = Get("/accounts")
    /\ IF ~GA_AVAILABLE
       THEN resp' = NotAvailable /\ calls' = <<>> /\ vendor' = <<>>
       ELSE \E v \in SimpleAccountAnswers :
               /\ resp' = get_accounts(v)
               /\ calls' = OneCall("AnalyticsAdminServiceClient",
                                   "list_accounts", v)
               /\ vendor' = v
    /\ UNCHANGED startupVars

(***************************************************************************)
(* http_server: the MCP bridge                                             *)
(***************************************************************************)
\* params.arguments: absent, a JSON object with these keys, or not an object
NoArguments == [t |-> "missing", keys |-> {}]
ArgumentValues ==
    {NoArguments,
     [t |-> "object", keys |-> {}],
     [t |-> "object", keys |-> {"property_id"}],
     [t |-> "object", keys |-> {"property_id", "bogus"}],
     [t |-> "array", keys |-> {}],
     [t |-> "null", keys |-> {}]}

\* params.name
NameValues ==
    {JMissing, JNull, JNum("7"), JArr(<<>>), JStr("nope")}
    \cup {JStr(n) : n \in ToolNames}

NoParams == [t |-> "missing", name |-> JMissing, arguments |-> NoArguments]
ParamValues ==
    {NoParams,
     [t |-> "null", name |-> JMissing, arguments |-> NoArguments],
     [t |-> "array", name |-> JMissing, arguments |-> NoArguments]}
    \cup {[t |-> "object", name |-> n, arguments |-> a] :
             n \in NameValues, a \in ArgumentValues}

\* The bodies POST /message and POST /sse are sent
McpBodies ==
    {[t |-> "invalid"], [t |-> "array"]}
    \cup {[t |-> "object", method |-> m, params |-> NoParams] :
             m \in {JMissing, JStr("tools/list"), JStr("initialize"),
                    JStr("ping")}}
    \cup {[t |-> "object", method |-> JStr("tools/call"), params |-> ps] :
             ps \in ParamValues}

\* What the body of a tool function does once it runs
ToolOutcomes ==
    {[raises |-> FALSE, cause |-> "", result |-> "{'accounts': []}"]}
    \cup {[raises |-> TRUE, cause |-> c, result |-> ""] : c \in Causes}

\* f"{value}" of a JSON scalar
Format(j) ==
    CASE j.t = "string" -> j.s
      [] j.t = "number" -> j.s
      [] OTHER -> "None"

\* type(value).__name__
TypeName(t) ==
    CASE t = "array" -> "list"
      [] t = "null" -> "NoneType"
      [] t = "string" -> "str"
      [] t = "number" -> "int"
      [] OTHER -> "dict"

Hashable(j) == j.t \notin {"array", "object"}

\* tool_name in mcp._tool_manager._tools
Registered(registry, j) ==
    j.t = "string" /\ \E i \in 1..Len(registry) : registry[i].name = j.s
Lookup(registry, name) ==
    registry[CHOOSE i \in 1..Len(registry) : registry[i].name = name]

Result(r) == [raised |-> FALSE, exc_type |-> "", exc_text |-> "",
              result |-> r, invoked |-> <<>>]
Escapes(type, text) == [raised |-> TRUE, exc_type |-> type, exc_text |-> text,
                        result |-> [error |-> text], invoked |-> <<>>]

ToolError(text, invoked) ==
    [raised |-> FALSE, exc_type |-> "", exc_text |-> "",
     result |-> [content |-> <<[type |-> "text",
                                text |-> "Error calling tool: " \o text]>>,
                 isError |-> TRUE],
     invoked |-> invoked]

\* Mutant: the arguments are bound before the try block is entered
call_tool_binding_outside_try(tool_func, arguments, outcome) ==
    IF arguments.t \notin {"missing", "object"} THEN
        Escapes("TypeError", "argument after ** must be a mapping")
    ELSE IF ~(arguments.keys \subseteq tool_func.params) THEN
        Escapes("TypeError", "got an unexpected keyword argument")
    ELSE IF ~(tool_func.required \subseteq arguments.keys) THEN
        Escapes("TypeError", "missing required keyword arguments")
    ELSE IF outcome.raises THEN ToolError(outcome.cause, <<tool_func.name>>)
    ELSE [raised |-> FALSE, exc_type |-> "", exc_text |-> "",
          result |-> [content |-> <<[type |-> "text",
                                     text |-> outcome.result]>>],
          invoked |-> <<tool_func.name>>]

\* tool_func(**arguments), awaited when tool_func is a coroutine function,
\* inside the try of process_mcp_request
call_tool(tool_func, arguments, outcome) ==
    IF arguments.t \notin {"missing", "object"} THEN
        ToolError(tool_func.name \o "() argument after ** must be a mapping, not "
                  \o TypeName(arguments.t), <<>>)
    ELSE IF ~(arguments.keys \subseteq tool_func.params) THEN
        ToolError(tool_func.name \o "() got an unexpected keyword argument",
                  <<>>)
    ELSE IF ~(tool_func.required \subseteq arguments.keys) THEN
        ToolError(tool_func.name \o "() missing required keyword arguments",
                  <<>>)
    ELSE IF outcome.raises THEN ToolError(outcome.cause, <<tool_func.name>>)
    ELSE [raised |-> FALSE, exc_type |-> "", exc_text |-> "",
          result |-> [content |-> <<[type |-> "text",
                                     text |-> outcome.result]>>],
          invoked |-> <<tool_func.name>>]

tool_descriptor(tool_func) ==
    [name |-> tool_func.name,
     description |-> IF tool_func.has_doc THEN tool_func.doc ELSE "",
     inputSchema |-> IF tool_func.has_schema THEN tool_func.schema ELSE "{}"]

\* Mutant: tools are listed only to a client whose previous request was
\* initialize
list_tools_after_initialize(registry) ==
    IF /\ req.method = "POST"
       /\ req.body.t = "object"
       /\ req.body.method = [t |-> "string", s |-> "initialize", items |-> <<>>]
    THEN [i \in 1..Len(registry) |-> tool_descriptor(registry[i])]
    ELSE <<>>

\* Mutant: a tool without a docstring is left out of the list
list_tools_documented_only(registry) ==
    LET keep == {i \in 1..Len(registry) : registry[i].has_doc} IN
    IF keep = {} THEN <<>>
    ELSE <<tool_descriptor(registry[CHOOSE i \in keep : TRUE])>>

\* tools = []; for name, tool_func in _tools.items(): tools.append({...})
list_tools(registry) ==
    [i \in 1..Len(registry) |-> tool_descriptor(registry[i])]

\* What process_mcp_request(request) returns, or the exception that leaves it
process_mcp_request(request, registry, outcome) ==
    IF request.t # "object" THEN
        Escapes("AttributeError",
                "'" \o TypeName(request.t) \o "' object has no attribute 'get'")
    ELSE
    LET method == request.method IN
    IF method = JStr("tools/list") THEN
        Result([tools |-> list_tools(registry)])
    ELSE IF method = JStr("tools/call") THEN
        LET params == request.params IN
        IF params.t \notin {"missing", "object"} THEN
            Escapes("AttributeError",
                    "'" \o TypeName(params.t)
                        \o "' object has no attribute 'get'")
        ELSE
        LET tool_name == params.name
            arguments == params.arguments
        IN
        IF ~Hashable(tool_name) THEN
            Escapes("TypeError",
                    "unhashable type: '" \o TypeName(tool_name.t) \o "'")
        ELSE IF ~Registered(registry, tool_name) THEN
            Result([error |-> "Tool '" \o Format(tool_name) \o "' not found",
                    isError |-> TRUE])
        ELSE call_tool(Lookup(registry, tool_name.s), arguments, outcome)
    ELSE IF method = JStr("initialize") THEN
        Result([protocolVersion |-> "2024-11-05",
                capabilities |-> [tools |-> <<>>],
                serverInfo |-> [name |-> "Google Analytics MCP Server",
                                version |-> "0.1.1"]])
    ELSE
        Result([error |-> "Unknown method: " \o Format(method),
                isError |-> TRUE])

\* body = await request.json(); then process_mcp_request(body)
read_and_process(body, registry, outcome) ==
    IF body.t = "invalid"
    THEN Escapes("JSONDecodeError", "Expecting value: line 1 column 1 (char 0)")
    ELSE process_mcp_request(body, registry, outcome)

\* POST /message: `return result`, or `return {...}, 500` from the except
\* clause: FastAPI sends a returned tuple as a JSON array with status 200
message_endpoint(body, registry, outcome) ==
    LET r == read_and_process(body, registry, outcome) IN
    IF r.raised
    THEN [status |-> 200, kind |-> "array",
          body |-> [error |-> r.exc_text, type |-> r.exc_type],
          second |-> 500]
    ELSE Ok200(r.result)

\* json.dumps(result) raises TypeError when the result holds a value that
\* is not JSON-serializable.  Every value process_mcp_request builds itself
\* is a str, a bool, a list or a dict; only an inputSchema taken from a
\* tool's _mcp_input_schema attribute can be anything else.
MayNotSerialize(result) ==
    /\ "tools" \in DOMAIN result
    /\ \E i \in 1..Len(result.tools) : result.tools[i].inputSchema # "{}"

DumpChoices(result) ==
    {TRUE} \cup (IF MayNotSerialize(result) THEN {FALSE} ELSE {})

NotSerializable ==
    [error |-> "Object of type type is not JSON serializable",
     type |-> "TypeError"]

\* Mutant: the generator ends without an event when anything raises
sse_endpoint_silent_on_error(body, registry, outcome, dumpable) ==
    LET r == read_and_process(body, registry, outcome) IN
    [status |-> 200, kind |-> "event-stream",
     events |-> IF r.raised \/ ~dumpable THEN <<>> ELSE <<r.result>>]

\* POST /sse: a StreamingResponse whose generator yields one event: the
\* result, or {error, type} when reading the body, process_mcp_request or
\* json.dumps(result) raised (dumpable FALSE)
sse_endpoint(body, registry, outcome, dumpable) ==
    LET r == read_and_process(body, registry, outcome) IN
    [status |-> 200, kind |-> "event-stream",
     events |-> IF r.raised
                THEN <<[error |-> r.exc_text, type |-> r.exc_type]>>
                ELSE IF ~dumpable THEN <<NotSerializable>>
                ELSE <<r.result>>]

\* The tool outcome matters only to a request that runs a tool
OutcomesFor(body, registry) ==
    IF read_and_process(body, registry, CHOOSE o \in ToolOutcomes : TRUE).invoked
       = <<>>
    THEN {CHOOSE o \in ToolOutcomes : TRUE}
    ELSE ToolOutcomes

http_server_message ==
    /\ Serving("http_server")
    /\ \E body \in McpBodies :
         \E outcome \in OutcomesFor(body, tools) :
           /\ req' = [method |-> "POST", path |-> "/message", body |-> body]
           /\ resp' = message_endpoint(body, tools, outcome)
           /\ calls' = read_and_process(body, tools, outcome).invoked
           /\ vendor' = outcome
    /\ UNCHANGED startupVars

http_server_sse ==
    /\ Serving("http_server")
    /\ \E body \in McpBodies :
         \E outcome \in OutcomesFor(body, tools) :
           /\ req' = [method |-> "POST", path |-> "/sse", body |-> body]
           /\ \E dumpable \in
                    DumpChoices(read_and_process(body, tools, outcome).result) :
                 resp' = sse_endpoint(body, tools, outcome, dumpable)
           /\ calls' = read_and_process(body, tools, outcome).invoked
           /\ vendor' = outcome
    /\ UNCHANGED startupVars

Next ==
    \/ full_test_endpoint
    \/ simple_test_endpoint
    \/ full_debug_endpoint
    \/ simple_debug_endpoint
    \/ full_startup
    \/ simple_startup
    \/ start_mcp_startup
    \/ http_server_startup
    \/ minimal_startup
    \/ full_root
    \/ simple_root
    \/ http_server_root
    \/ minimal_read_root
    \/ full_health_check
    \/ simple_health_check
    \/ http_server_health
    \/ minimal_health
    \/ full_get_account_summaries
    \/ full_list_all_properties
    \/ full_get_properties_summary
    \/ full_get_property_details
    \/ full_list_google_ads_links
    \/ full_get_custom_dimensions_and_metrics
    \/ full_run_report
    \/ full_run_realtime_report
    \/ simple_get_accounts
    \/ simple_run_report
    \/ simple_run_realtime_report
    \/ http_server_message
    \/ http_server_sse

Spec == Init /\ [][Next]_vars

NextBoot ==
    \/ full_test_endpoint
    \/ simple_test_endpoint
    \/ full_debug_endpoint
    \/ simple_debug_endpoint
    \/ full_startup
    \/ simple_startup
    \/ start_mcp_startup
    \/ full_root
    \/ simple_root
    \/ full_health_check
    \/ simple_health_check

SpecBoot == InitBoot /\ [][NextBoot]_vars

\* Request handling while the file and the variables change around the app
NextServe == Next \/ outside_change

SpecServe == Init /\ [][NextServe]_vars

(***************************************************************************)
(* Properties                                                              *)
(***************************************************************************)
ListingRoutes == {"/accounts", "/properties", "/properties/summary"}

PrimaryCallRoutes ==
    {"/accounts", "/property/{property_id}", "/ads-links/{property_id}",
     "/report", "/realtime-report/{property_id}", "/properties",
     "/properties/summary"}

DataRoutes ==
    PrimaryCallRoutes \cup {"/custom-dimensions-metrics/{property_id}"}

ApiServing == module \in ApiModules /\ phase = "serving"

\* The outcome of the route's primary vendor call in the request handled last
PrimaryCall ==
    IF "list_accounts" \in DOMAIN vendor THEN vendor.list_accounts
    ELSE vendor.call

PrimaryCallRaised ==
    /\ ApiServing /\ GA_AVAILABLE
    /\ req.path \in PrimaryCallRoutes
    /\ Len(calls) = 2
    /\ PrimaryCall.raises

\* C1: on every data route, with GA_AVAILABLE true, a raising primary vendor
\* call (list_accounts, get_property, list_google_ads_links, run_report,
\* run_realtime_report) ends in status 500 with a detail that contains the
\* cause text, never in a 200.
C1_PrimaryFailureIs500 ==
    PrimaryCallRaised =>
        /\ resp.status = 500
        /\ resp.status # 200
        /\ DOMAIN resp.body = {"detail"}
        /\ PrimaryCall.cause # ""
        /\ Contains(resp.body.detail, PrimaryCall.cause)

C1_Witness ==
    /\ PrimaryCallRaised
    /\ module = "full_mcp_api"
    /\ req.path = "/properties/summary"
    /\ resp.status = 500
    /\ resp.body.detail = "Error: deadline exceeded"

\* The claim's own reading of a body that does not deserialize into
\* ReportRequest: not an object, property_id missing or not a string, a
\* date present and not a string, metrics or dimensions present and not a
\* list of strings
IsListOfStrings(j) ==
    j.t = "array" /\ \A i \in 1..Len(j.items) : j.items[i].t = "string"

DoesNotDeserialize(body) ==
    \/ body.t # "object"
    \/ body.property_id.t # "string"
    \/ body.start_date.t \notin {"missing", "string"}
    \/ body.end_date.t \notin {"missing", "string"}
    \/ (body.metrics.t # "missing" /\ ~IsListOfStrings(body.metrics))
    \/ (body.dimensions.t # "missing" /\ ~IsListOfStrings(body.dimensions))

RejectedByValidation == req.path = "/report" /\ DoesNotDeserialize(req.body)

\* C2 as stated: with GA_AVAILABLE false every request to a data route is
\* answered 500 "Google Analytics libraries not available" and makes no
\* vendor call.
C2_EveryDataRequestUnavailable ==
    (ApiServing /\ ~GA_AVAILABLE /\ req.path \in DataRoutes) =>
        /\ resp.status = 500
        /\ resp.body.detail = "Google Analytics libraries not available"
        /\ calls = <<>>

\* C2 (amended): with GA_AVAILABLE false every request that reaches the
\* handler of a data route (for POST /report: whose body deserializes into
\* ReportRequest) is answered 500 "Google Analytics libraries not
\* available", and no request to a data route constructs a vendor client or
\* calls a vendor method.
C2_ReadinessCheckedFirst ==
    (ApiServing /\ ~GA_AVAILABLE /\ req.path \in DataRoutes) =>
        /\ calls = <<>>
        /\ ~RejectedByValidation =>
             /\ resp.status = 500
             /\ DOMAIN resp.body = {"detail"}
             /\ resp.body.detail = "Google Analytics libraries not available"

C2_Witness ==
    /\ ApiServing /\ ~GA_AVAILABLE
    /\ req.path = "/custom-dimensions-metrics/{property_id}"
    /\ resp.status = 500
    /\ resp.body.detail = "Google Analytics libraries not available"
    /\ calls = <<>>

\* C3: a POST /report whose body does not deserialize into ReportRequest is
\* answered 422, whatever the readiness flag, and makes no vendor call.
C3_InvalidBodyIs422 ==
    (ApiServing /\ RejectedByValidation) =>
        /\ resp.status = 422
        /\ calls = <<>>
        /\ resp.body.detail # "Google Analytics libraries not available"

C3_Witness ==
    /\ ApiServing /\ ~GA_AVAILABLE
    /\ RejectedByValidation
    /\ req.body.t = "object"
    /\ req.body.property_id.t = "string"
    /\ req.body.dimensions.t = "array"
    /\ resp.status = 422

ReportRoutes == {"/report", "/realtime-report/{property_id}"}

ReportAnswered ==
    /\ ApiServing /\ GA_AVAILABLE
    /\ req.path \in ReportRoutes
    /\ Len(calls) = 2
    /\ ~vendor.call.raises

\* C4: for every vendor report response the body of POST /report and of
\* POST /realtime-report/{id} holds the vendor's header names in vendor
\* order and the vendor's rows in vendor order, row i holding exactly the
\* dimension and metric values of vendor row i in order.
C4_ReportKeepsVendorOrder ==
    ReportAnswered =>
        LET r == vendor.response
            b == resp.body
        IN
        /\ resp.status = 200
        /\ DOMAIN b = {"dimension_headers", "metric_headers", "rows"}
        /\ Len(b.dimension_headers) = Len(r.dimension_headers)
        /\ \A i \in 1..Len(r.dimension_headers) :
               b.dimension_headers[i] = r.dimension_headers[i].name
        /\ Len(b.metric_headers) = Len(r.metric_headers)
        /\ \A i \in 1..Len(r.metric_headers) :
               b.metric_headers[i] = r.metric_headers[i].name
        /\ Len(b.rows) = Len(r.rows)
        /\ \A i \in 1..Len(r.rows) :
               /\ DOMAIN b.rows[i] = {"dimensions", "metrics"}
               /\ Len(b.rows[i].dimensions) = Len(r.rows[i].dimension_values)
               /\ \A j \in 1..Len(r.rows[i].dimension_values) :
                      b.rows[i].dimensions[j] = r.rows[i].dimension_values[j].value
               /\ Len(b.rows[i].metrics) = Len(r.rows[i].metric_values)
               /\ \A j \in 1..Len(r.rows[i].metric_values) :
                      b.rows[i].metrics[j] = r.rows[i].metric_values[j].value

C4_Witness ==
    /\ ReportAnswered
    /\ req.path = "/report"
    /\ resp.status = 200
    /\ Len(vendor.response.rows) = 2
    /\ vendor.response.rows[1] # vendor.response.rows[2]
    /\ resp.body.rows[1].dimensions = <<"WAW", "PL">>
    /\ resp.body.rows[2].dimensions = <<"NYC", "US">>
    /\ resp.body.dimension_headers = <<"city", "country">>

\* A tools/call request whose params is an object or absent
ToolsCall ==
    /\ module = "http_server" /\ phase = "serving"
    /\ req.path \in {"/message", "/sse"}
    /\ req.body.t = "object"
    /\ req.body.method = JStr("tools/call")
    /\ req.body.params.t \in {"missing", "object"}

IsRegistryKey(j) ==
    j.t = "string" /\ \E i \in 1..Len(tools) : tools[i].name = j.s

\* C5 as stated: a tools/call whose params.name is not a key of the
\* registry (a missing name included) is answered with status 200 and a
\* body with isError true and an error text naming the tool, and invokes no
\* tool function.
C5_UnknownToolInBand ==
    (ToolsCall /\ req.path = "/message"
               /\ ~IsRegistryKey(req.body.params.name)) =>
        /\ resp.status = 200
        /\ resp.kind = "object"
        /\ "isError" \in DOMAIN resp.body
        /\ resp.body.isError = TRUE
        /\ "error" \in DOMAIN resp.body
        /\ Contains(resp.body.error, Format(req.body.params.name))
        /\ calls = <<>>

\* The tool function found for the request, and whether calling it with
\* params.arguments raises
CalledTool ==
    tools[CHOOSE i \in 1..Len(tools) : tools[i].name = req.body.params.name.s]

BindingRaises ==
    LET a == req.body.params.arguments IN
    \/ a.t \notin {"missing", "object"}
    \/ ~(a.keys \subseteq CalledTool.params)
    \/ ~(CalledTool.required \subseteq a.keys)

InvocationRaised ==
    /\ ToolsCall
    /\ IsRegistryKey(req.body.params.name)
    /\ (BindingRaises \/ vendor.raises)

IsToolError(b) ==
    /\ DOMAIN b = {"content", "isError"}
    /\ b.isError = TRUE
    /\ Len(b.content) = 1
    /\ DOMAIN b.content[1] = {"type", "text"}
    /\ b.content[1].type = "text"
    /\ SubSeq(b.content[1].text, 1, 20) = "Error calling tool: "
    /\ (~BindingRaises =>
            b.content[1].text = "Error calling tool: " \o vendor.cause)

\* C6: for a tools/call naming a registered tool, an exception raised while
\* invoking it (by a coroutine tool, by a plain tool, or by binding
\* params.arguments) never leaves process_mcp_request: the reply is
\* {content: [{type: "text", text: "Error calling tool: <message>"}],
\* isError: true} with status 200.
C6_ToolExceptionsInBand ==
    InvocationRaised =>
        /\ resp.status = 200
        /\ IF req.path = "/message"
           THEN resp.kind = "object" /\ IsToolError(resp.body)
           ELSE Len(resp.events) = 1 /\ IsToolError(resp.events[1])

C6_Witness ==
    /\ InvocationRaised
    /\ req.path = "/message"
    /\ BindingRaises
    /\ ~CalledTool.coroutine
    /\ req.body.params.arguments.t = "array"
    /\ resp.status = 200
    /\ resp.body.isError = TRUE

ToolsList ==
    /\ module = "http_server" /\ phase = "serving"
    /\ req.path = "/message"
    /\ req.body.t = "object"
    /\ req.body.method = JStr("tools/list")

\* C7: tools/list returns one descriptor {name, description, inputSchema}
\* for every registered tool and for no other name, each name once, in the
\* iteration order of the registry; handling a request leaves the registry
\* unchanged.
C7_ToolsListIsRegistry ==
    /\ [](ToolsList =>
            /\ resp.status = 200
            /\ DOMAIN resp.body = {"tools"}
            /\ Len(resp.body.tools) = Len(tools)
            /\ \A i \in 1..Len(tools) :
                   /\ DOMAIN resp.body.tools[i] =
                          {"name", "description", "inputSchema"}
                   /\ resp.body.tools[i].name = tools[i].name
            /\ \A i \in 1..Len(tools) :
                   Cardinality({k \in 1..Len(resp.body.tools) :
                                   resp.body.tools[k].name = tools[i].name}) = 1
            /\ calls = <<>>)
    /\ [][phase = "serving" => tools' = tools]_vars

C7_Witness ==
    /\ ToolsList
    /\ Len(tools) = 2
    /\ ~tools[1].has_doc
    /\ Len(resp.body.tools) = 2
    /\ resp.body.tools[1].name = "run_report"
    /\ resp.body.tools[1].description = ""
    /\ resp.body.tools[2].name = "get_account_summaries"

HealthRequest ==
    \/ full_health_check
    \/ simple_health_check
    \/ http_server_health
    \/ minimal_health

\* C8: in every server, GET /health answers 200 with status "healthy",
\* whatever GA_AVAILABLE and CREDS_SUCCESS are and whatever was handled
\* before (it can be handled in every state of a serving process, a failed
\* request's included), and makes no vendor call.
C8_HealthAlwaysHealthy ==
    /\ req = Get("/health") =>
          /\ resp.status = 200
          /\ resp.kind = "object"
          /\ resp.body.status = "healthy"
          /\ calls = <<>>
    /\ (phase = "serving" /\ module # "start_mcp") => ENABLED HealthRequest

C8_Witness ==
    /\ module = "full_mcp_api"
    /\ ~GA_AVAILABLE /\ ~CREDS_SUCCESS
    /\ req = Get("/health")
    /\ resp.status = 200
    /\ resp.body.status = "healthy"

NotSetMessage == "GOOGLE_CREDENTIALS_BASE64 not set"

CredentialsUnset ==
    \/ ~environ.GOOGLE_CREDENTIALS_BASE64.set
    \/ environ.GOOGLE_CREDENTIALS_BASE64.val = ""

\* C9: with GOOGLE_CREDENTIALS_BASE64 unset or empty, setup_credentials
\* raises nothing and returns (False, "GOOGLE_CREDENTIALS_BASE64 not set"),
\* and GET / then answers 200 with credentials_set false and that message.
C9_UnsetCredentials ==
    (module \in CredModules /\ phase # "load" /\ CredentialsUnset) =>
        /\ CREDS_SUCCESS = FALSE
        /\ CREDS_MESSAGE = NotSetMessage
        /\ ~raised.any
        /\ (module \in ApiModules /\ req = Get("/")) =>
              /\ resp.status = 200
              /\ resp.body.credentials_set = FALSE
              /\ resp.body.credentials_message = NotSetMessage

C9_Witness ==
    /\ module = "full_mcp_api" /\ phase = "serving"
    /\ environ.GOOGLE_CREDENTIALS_BASE64 = SetTo("")
    /\ req = Get("/")
    /\ resp.status = 200
    /\ resp.body.credentials_set = FALSE
    /\ resp.body.credentials_message = NotSetMessage

\* The failures of the claim, read off the inputs of the run
DecodedCredentials == b64decode(environ.GOOGLE_CREDENTIALS_BASE64.val)

BootstrapFailure ==
    /\ ~CredentialsUnset
    /\ \/ fsFault # "none"
       \/ ~DecodedCredentials.ok
       \/ ~json_load(DecodedCredentials.data).ok

\* C10: setup_credentials is total.  Whatever GOOGLE_CREDENTIALS_BASE64
\* holds and whichever of directory creation, decoding, writing or parsing
\* fails, it returns a result, (False, message) with the text of the
\* exception it caught in the message; it returns True only when /app/credentials.json holds the
\* decoded bytes, these parse as JSON, and GOOGLE_APPLICATION_CREDENTIALS is
\* that path.
C10_SetupCredentialsTotal ==
    (module \in CredModules /\ phase # "load") =>
          /\ CREDS_MESSAGE # ""
          /\ BootstrapFailure =>
                /\ CREDS_SUCCESS = FALSE
                /\ raised.any
                /\ raised.text # ""
                /\ CREDS_MESSAGE # NotSetMessage
                /\ Contains(CREDS_MESSAGE, raised.text)
          /\ raised.any =>
                /\ CREDS_SUCCESS = FALSE
                /\ Contains(CREDS_MESSAGE, raised.text)
          /\ CREDS_SUCCESS =>
                /\ credfile.exists
                /\ DecodedCredentials.ok
                /\ credfile.data = DecodedCredentials.data
                /\ json_load(credfile.data).ok
                /\ environ.GOOGLE_APPLICATION_CREDENTIALS =
                       SetTo("/app/credentials.json")

C10_Witness ==
    /\ module = "simple_api" /\ phase = "serving"
    /\ environ.GOOGLE_CREDENTIALS_BASE64 = SetTo("ew==")
    /\ fsFault = "none"
    /\ CREDS_SUCCESS = FALSE
    /\ CREDS_MESSAGE = "Error setting up credentials: Invalid JSON text"
    /\ credfile.data = <<123>>

(***************************************************************************)
(* C11                                                                     *)
(***************************************************************************)
RootAnswered == req = Get("/") /\ resp # NoResponse

\* C11: a failed credential bootstrap is fatal only for start_mcp. There
\* the process has exited with a non-zero status and run_server was not
\* called, and nothing happens afterwards; full_mcp_api and simple_api keep
\* running whatever the bootstrap returned, and their GET / answers 200
\* with credentials_set equal to the bootstrap's result (false after a
\* failure).
C11_BootstrapFailureFatalOnlyForStartMcp ==
    /\ [](/\ (module = "start_mcp" /\ phase # "load" /\ ~CREDS_SUCCESS) =>
                 /\ phase = "exited"
                 /\ exit_code \notin {-1, 0}
                 /\ ~server_started
          /\ (module \in ApiModules /\ phase # "load") =>
                 /\ phase = "serving"
                 /\ exit_code = -1
                 /\ RootAnswered =>
                       /\ resp.status = 200
                       /\ resp.body.credentials_set = CREDS_SUCCESS)
    /\ [][phase = "exited" => UNCHANGED vars]_vars

C11_Witness ==
    /\ module = "start_mcp" /\ phase = "exited"
    /\ BootstrapFailure /\ raised.any /\ exit_code = 1 /\ ~server_started

(***************************************************************************)
(* C12                                                                     *)
(***************************************************************************)
\* Some vendor call made while handling the last request raised
VendorCallFailed ==
    /\ ApiServing /\ resp # NoResponse /\ calls # <<>>
    /\ \/ "ctor" \in DOMAIN vendor /\ vendor.ctor.raises
       \/ "call" \in DOMAIN vendor /\ vendor.call.raises
       \/ "list_accounts" \in DOMAIN vendor /\ vendor.list_accounts.raises
       \/ "list_properties" \in DOMAIN vendor
            /\ \E i \in DOMAIN vendor.list_properties :
                  vendor.list_properties[i].raises
       \/ "dims" \in DOMAIN vendor /\ vendor.dims.raises
       \/ "mets" \in DOMAIN vendor /\ vendor.mets.raises

HasMessageField ==
    /\ resp.kind = "object"
    /\ {"detail", "error"} \cap DOMAIN resp.body # {}

\* C12: whenever a vendor call made while handling a request failed, the
\* response carries a message field describing the failure; it is never a
\* 200 body without one.
C12_EveryVendorFailureReported ==
    VendorCallFailed => HasMessageField /\ resp.status # 200

(***************************************************************************)
(* C13                                                                     *)
(***************************************************************************)
\* Handling the last POST /message request raised outside the guard around
\* the tool invocation
MessageRaised ==
    /\ Serving("http_server")
    /\ req.method = "POST" /\ req.path = "/message"
    /\ \/ req.body.t \in {"invalid", "array"}
       \/ /\ req.body.t = "object"
          /\ req.body.method = JStr("tools/call")
          /\ req.body.params.t \in {"null", "array"}

\* C13: when handling POST /message raises outside the tool-invocation
\* guard (body not JSON, body not an object, params not an object), the
\* response has status 500 and its body is the object {error, type}.
C13_MessageFaultIs500 ==
    MessageRaised =>
        /\ resp.status = 500
        /\ resp.kind = "object"
        /\ DOMAIN resp.body = {"error", "type"}

(***************************************************************************)
(* C14                                                                     *)
(***************************************************************************)
SseRequest ==
    /\ Serving("http_server")
    /\ req.method = "POST" /\ req.path = "/sse"

\* What reading and processing the last request's body gave
Processed == read_and_process(req.body, tools, vendor)

IsErrorEvent(e) == DOMAIN e = {"error", "type"} /\ e.type # ""

\* C14: every POST /sse request produces exactly one server-sent event:
\* the full result when reading, processing and serializing succeeded, and
\* one {error, type} event when the body is unreadable, process_mcp_request
\* raised or the result could not be serialized; never none, never two.
C14_SseExactlyOneEvent ==
    SseRequest =>
        /\ resp.status = 200
        /\ resp.kind = "event-stream"
        /\ Len(resp.events) = 1
        /\ IF Processed.raised
           THEN /\ IsErrorEvent(resp.events[1])
                /\ resp.events[1].error = Processed.exc_text
           ELSE \/ resp.events[1] = Processed.result
                \/ /\ MayNotSerialize(Processed.result)
                   /\ resp.events[1] = NotSerializable

C14_Witness ==
    /\ SseRequest
    /\ req.body.t = "object" /\ req.body.method = JStr("tools/list")
    /\ Len(tools) = 2
    /\ resp.events = <<NotSerializable>>

(***************************************************************************)
(* C15                                                                     *)
(***************************************************************************)
\* The last request reached process_mcp_request with one of the three
\* protocol methods and was answered by it
ProtocolRequest ==
    /\ Serving("http_server")
    /\ req.method = "POST" /\ req.path \in {"/message", "/sse"}
    /\ req.body.t = "object"
    /\ \/ req.body.method \in {JStr("tools/list"), JStr("initialize")}
       \/ /\ req.body.method = JStr("tools/call")
          /\ req.body.params.t \in {"missing", "object"}
          /\ Hashable(req.body.params.name)

\* The reply as a function of the request, the registry and what the
\* called tool did
StatelessReply ==
    CASE req.body.method = JStr("tools/list") ->
            [tools |-> [i \in 1..Len(tools) |-> tool_descriptor(tools[i])]]
      [] req.body.method = JStr("initialize") ->
            [protocolVersion |-> "2024-11-05",
             capabilities |-> [tools |-> <<>>],
             serverInfo |-> [name |-> "Google Analytics MCP Server",
                             version |-> "0.1.1"]]
      [] OTHER ->
            IF Registered(tools, req.body.params.name)
            THEN call_tool(Lookup(tools, req.body.params.name.s),
                           req.body.params.arguments, vendor).result
            ELSE [error |-> "Tool '" \o Format(req.body.params.name)
                                     \o "' not found",
                  isError |-> TRUE]

\* C15: the bridge keeps no session state.  The reply to tools/list,
\* tools/call and initialize is a function of that request and of the tool
\* registry alone, whatever was handled before (an initialize request or
\* not), and handling a request changes no server variable.
C15_BridgeIsStateless ==
    /\ [](ProtocolRequest =>
            /\ resp.status = 200
            /\ IF req.path = "/message"
               THEN resp.kind = "object" /\ resp.body = StatelessReply
               ELSE /\ Len(resp.events) = 1
                    /\ resp.events[1] \in {StatelessReply, NotSerializable})
    /\ [][module = "http_server" /\ phase = "serving" =>
             UNCHANGED startupVars]_vars

C15_Witness ==
    /\ ProtocolRequest
    /\ req.path = "/message"
    /\ req.body.method = JStr("tools/list")
    /\ Len(tools) = 2
    /\ Len(resp.body.tools) = 2

(***************************************************************************)
(* C16                                                                     *)
(***************************************************************************)
\* GET / or GET /debug of full_mcp_api or simple_api was answered
StateReported ==
    /\ ApiServing /\ resp # NoResponse
    /\ req.method = "GET" /\ req.path \in {"/", "/debug"}

ReportedSuccess ==
    IF req.path = "/" THEN resp.body.credentials_set
    ELSE resp.body.credentials_setup.success

ReportedMessage ==
    IF req.path = "/" THEN resp.body.credentials_message
    ELSE resp.body.credentials_setup.message

\* C16: CREDS_SUCCESS, CREDS_MESSAGE and GA_AVAILABLE are fixed at startup.
\* Once the app serves, no step changes them, no request handler touches
\* the credential variables or the credentials file (setup_credentials is
\* not run again), and GET / and GET /debug report the values computed at
\* startup whatever has happened to the file and the variables since.
C16_CredentialsStateFixedAtStartup ==
    /\ [](StateReported =>
            /\ resp.status = 200
            /\ ReportedSuccess = CREDS_SUCCESS
            /\ ReportedMessage = CREDS_MESSAGE)
    /\ [][(module \in ApiModules /\ phase = "serving") =>
             /\ CREDS_SUCCESS' = CREDS_SUCCESS
             /\ CREDS_MESSAGE' = CREDS_MESSAGE
             /\ GA_AVAILABLE' = GA_AVAILABLE
             /\ (requestVars' # requestVars =>
                    UNCHANGED <<environ, credfile, raised>>)]_vars

\* GET /debug still reports the successful bootstrap after the file it
\* wrote is gone and the variables are cleared
C16_Witness ==
    /\ StateReported /\ req.path = "/debug"
    /\ ReportedSuccess
    /\ ReportedMessage = "Credentials successfully set up"
    /\ ~resp.body.file_status.exists
    /\ ~environ.GOOGLE_CREDENTIALS_BASE64.set

(***************************************************************************)
(* C17                                                                     *)
(***************************************************************************)
PropertyFields ==
    {"name", "display_name", "property_id", "create_time", "website_url",
     "time_zone", "currency_code", "property_type"}

\* The Property mappings of the last response of full_mcp_api
EmittedProperties ==
    IF ~(Serving("full_mcp_api") /\ resp.status = 200) THEN {}
    ELSE IF req.path = "/accounts" THEN
        UNION {{resp.body.accounts[i].properties[j] :
                   j \in 1..Len(resp.body.accounts[i].properties)} :
               i \in 1..Len(resp.body.accounts)}
    ELSE IF req.path = "/properties" THEN
        {resp.body.properties[i] : i \in 1..Len(resp.body.properties)}
    ELSE IF req.path = "/property/{property_id}" THEN {resp.body}
    ELSE {}

\* C17: every Property mapping a route emits (under an account in GET
\* /accounts, in GET /properties, by GET /property/{id}) carries every
\* field of PropertyFields; none is omitted.
C17_PropertyShapeIsFixed ==
    \A p \in EmittedProperties : PropertyFields \subseteq DOMAIN p

(***************************************************************************)
(* C18                                                                     *)
(***************************************************************************)
\* GET /debug was answered by an app whose credential variable holds a
\* value that decodes to at least one byte
DebugWithSecret ==
    /\ ApiServing /\ req = Get("/debug") /\ resp # NoResponse
    /\ ~CredentialsUnset
    /\ DecodedCredentials.ok /\ DecodedCredentials.data # <<>>

IsPrefix(p, s) == Len(p) <= Len(s) /\ p = SubSeq(s, 1, Len(p))

\* C18: the credential is exposed only as a length or a boolean: no
\* response carries characters of the decoded service-account JSON.
C18_SecretOnlyAsLengthOrBoolean ==
    DebugWithSecret =>
        LET shown == resp.body.file_status.first_chars.chars IN
        shown = <<>> \/ ~IsPrefix(shown, DecodedCredentials.data)

(***************************************************************************)
(* C19                                                                     *)
(***************************************************************************)
ReportBodyAnswered ==
    /\ ApiServing /\ GA_AVAILABLE
    /\ req.method = "POST" /\ req.path = "/report"
    /\ resp.status = 200

AccountsListed ==
    /\ Serving("full_mcp_api") /\ GA_AVAILABLE
    /\ req.method = "GET" /\ req.path \in {"/accounts", "/properties"}
    /\ "list_accounts" \in DOMAIN vendor
    /\ ~vendor.ctor.raises /\ ~vendor.list_accounts.raises

\* The vendor's properties of the accounts whose list_properties returned,
\* each with its account, in vendor order
Surviving ==
    Concat([i \in 1..Len(vendor.accounts) |->
               IF vendor.list_properties[i].raises THEN <<>>
               ELSE [j \in 1..Len(vendor.list_properties[i].items) |->
                        [prop |-> vendor.list_properties[i].items[j],
                         account |-> vendor.accounts[i]]]])

BootstrapStep == module \in CredModules /\ phase = "load" /\ phase' # "load"

\* The call ends before open(credentials_path, 'wb') has succeeded: the
\* variable is unset or empty, makedirs raises, the value does not decode,
\* or open raises
FailsBeforeWrite ==
    \/ CredentialsUnset
    \/ fsFault \in {"makedirs", "open"}
    \/ ~DecodedCredentials.ok

\* The bytes are decoded and written, and the parse of the file fails
FailsAtParse ==
    /\ ~CredentialsUnset /\ fsFault = "none"
    /\ DecodedCredentials.ok
    /\ ~json_load(DecodedCredentials.data).ok

\* C21: setup_credentials does not roll back.  When the value decodes, the
\* bytes are written and the content does not parse as JSON, it returns
\* success = false while /app/credentials.json holds the decoded (invalid)
\* content and GOOGLE_APPLICATION_CREDENTIALS is set to that path.  When
\* the variable is unset or the failure comes before the write, the file
\* and the variables are left as they were; a failed call leaves the file
\* and GOOGLE_APPLICATION_CREDENTIALS as they were in these cases only.
C21_NoRollbackAfterLateFailure ==
    [][BootstrapStep =>
          /\ FailsAtParse =>
                /\ CREDS_SUCCESS' = FALSE
                /\ credfile' = [exists |-> TRUE,
                                data |-> DecodedCredentials.data]
                /\ environ'.GOOGLE_APPLICATION_CREDENTIALS =
                       SetTo("/app/credentials.json")
          /\ FailsBeforeWrite =>
                /\ CREDS_SUCCESS' = FALSE
                /\ credfile' = credfile
                /\ environ' = environ
          /\ (/\ CREDS_SUCCESS' = FALSE
              /\ credfile' = credfile
              /\ environ'.GOOGLE_APPLICATION_CREDENTIALS =
                     environ.GOOGLE_APPLICATION_CREDENTIALS)
                => FailsBeforeWrite]_vars

\* After a failed parse the invalid content is on disk, in place of the
\* file that was there, and the variable points at it
C21_Witness ==
    /\ module \in CredModules /\ phase # "load"
    /\ FailsAtParse
    /\ ~CREDS_SUCCESS /\ raised.any
    /\ credfile.exists
    /\ credfile.data = DecodedCredentials.data
    /\ credfile.data # OldFile.data
    /\ ~json_load(credfile.data).ok
    /\ environ.GOOGLE_APPLICATION_CREDENTIALS = SetTo("/app/credentials.json")

====
